---------------------------- MODULE Spec2Model ----------------------------
(***************************************************************************)
(* LoRa Basics Modem on a Raspberry Pi (Dragino hat): the process          *)
(* supervisor of main.c, the worker's panic/restart path of                *)
(* smtc_hal_mcu.c, and the maskable event slots of smtc_hal_lp_timer.c and *)
(* smtc_hal_gpio.c.                                                        *)
(*                                                                         *)
(* Two specifications share the module's variables:                        *)
(*   SupSpec   the supervisor's fork loop and the life of a worker         *)
(*             (start-up calls, transport calls, teardown, exit);          *)
(*   GateSpec  the timer and pin slots of one worker: the main thread's    *)
(*             HAL calls, timer signals and the pin driver's threads.      *)
(* Each leaves the other's variables as Init set them.                     *)
(***************************************************************************)
EXTENDS Integers, Sequences, FiniteSets, TLC

VARIABLES
    \* ---- supervisor process (main.c) ----
    sup_pc,      \* "fork" | "wait" | "cond" | "done"
    cpid,        \* value returned by the last fork(): 0 before, -1 failure, else pid
    wstatus,     \* int wstatus of main(), as waitpid() left it
    forks,       \* number of worker processes created so far
    reaped,      \* sequence of the wait statuses reaped so far
    \* ---- the worker process (child of fork) ----
    worker,      \* record, see NoWorker
    \* ---- event slots of one worker (smtc_hal_lp_timer.c, smtc_hal_gpio.c) ----
    fac,         \* what the run exercises and records, see TimerRuns, PinRuns
    lptim,       \* lptim[id]: [blocked, pending, callback]
    tmr,         \* OS timer of lptim[id]: [armed, left, sig] (left: ms to the
                 \* deadline; sig: its expiry signal is queued)
    gpio,        \* gpio[i]: [irq, irq_mode, blocked, pending]
    isr,         \* isr[i]: the driver holds an edge callback for pin i
    cb,          \* cb[i]: position of the driver thread in gpio_irq_callback
    m,           \* position of the main thread inside a HAL call
    coal,        \* coal[f][s]: masked notifications since slot s was last unmasked
    mret,        \* mret[f][s]: a mask call returned, no unmask call since
    obs,         \* what the last step returned and which handler it invoked
    hist,        \* hist[f][s]: what has happened to slot s since its last start,
                 \* stop or configuration (see TimerFresh, PinFresh)
    \* ---- the wake gate of the worker (smtc_hal_mcu.c, smtc_hal_rtc.c) ----
    wk,          \* record, see WakeZero
    \* ---- the application's parameters (main.c, main_periodical_uplink.c) ----
    app,         \* record, see AppZero
    \* ---- the context file of the workers (smtc_hal_nvm.c) ----
    nvm          \* record, see NvmZero

supVars == <<sup_pc, cpid, wstatus, forks, reaped, worker>>

gateVars == <<fac, lptim, tmr, gpio, isr, cb, m, coal, mret, obs, hist>>

vars == <<sup_pc, cpid, wstatus, forks, reaped, worker,
          fac, lptim, tmr, gpio, isr, cb, m, coal, mret, obs, hist,
          wk, app, nvm>>

-----------------------------------------------------------------------------
(* Bounds                                                                  *)

\* Worker processes the supervisor may create in one run of the model.
MaxForks == 4

\* Calls of hal_mcu_set_sleep_for_ms in one run of the model.
MaxParks == 3

\* Uplinks requested in one run of the model.
MaxUplinks == 3

\* Masked notifications counted per slot (the count saturates here).
MaxCoalesce == 2

\* calls of smtc_modem_hal_context_store in one run
MaxStores == 2

\* smtc_modem_hal_disable_modem_irq calls counted since the last
\* smtc_modem_hal_enable_modem_irq (the count saturates here)
MaxDisables == 2

-----------------------------------------------------------------------------
(* Wait status, as the C library encodes it                                *)

RESTART_CODE == 3

\* status of a process that called exit(code)
ExitStatus(code) == (code % 256) * 256

\* status of a process killed by signal sig
SignalStatus(sig) == sig

WIFEXITED(s) == (s % 128) = 0

WEXITSTATUS(s) == (s \div 256) % 256

\* exit codes and fatal signals the environment may give a worker
ExitCodes == {0, 1, 3}

FatalSignals == {3, 9}



-----------------------------------------------------------------------------
(* Event slots: data                                                       *)

HAL_LP_TIMER_NB == 2

\* static gpio_t gpio[P_NUM]: the model keeps two of the board's pin slots
\* (the slots share no state; the loops over them are kept).
P_NUM == 2

Timers == 0..(HAL_LP_TIMER_NB - 1)

Pins == 0..(P_NUM - 1)

NULL == "NULL"

\* callbacks the engine may attach
Handlers == {"h1", "h2"}

\* a hal_gpio_irq_t whose callback field is NULL
IrqNoCallback == "irq0"

\* irq->callback of a hal_gpio_irq_t (the model names an irq with a callback
\* by that callback)
irq_callback(irq) == IF irq = IrqNoCallback THEN NULL ELSE irq

\* BSP_GPIO_IRQ_MODE_OFF and one edge mode (the edge modes differ only in
\* the edge the driver watches)
IrqModes == {"OFF", "RISING"}

\* static lp_timer_t lptim[]: zero-initialised
LptimZero == [blocked |-> FALSE, pending |-> FALSE, callback |-> NULL]

\* static gpio_t gpio[]: zero-initialised (irq_mode 0 is BSP_GPIO_IRQ_MODE_OFF)
GpioZero == [irq |-> NULL, irq_mode |-> "OFF", blocked |-> FALSE, pending |-> FALSE]

\* A slot as the gate sees it: the masked/pending pair and the handler.
SlotView(b, p, h) == [blocked |-> b, pending |-> p, h |-> h]

NoView == SlotView(FALSE, FALSE, NULL)

\* The main thread outside any HAL call. Inside a call: op is the position,
\* i the slot, n/s0 the masked-notification count and the slot when the
\* unmask of slot i began, disp the handler invocations that unmask made,
\* done the pin slots whose handler this hal_gpio_irq_enable has invoked,
\* snap the slots that held a pending notification and a handler when this
\* smtc_modem_hal_enable_modem_irq began (pin i is slot i, timer id is slot
\* P_NUM + id), pin the argument of this hal_gpio_clear_pending_irq.
MainIdle ==
    [op |-> "idle", i |-> 0, n |-> 0, s0 |-> NoView, disp |-> 0, ms |-> 0,
     done |-> {}, snap |-> {}, pin |-> 0]

\* obs of a step that returns from nothing and invokes no handler.
\*   arg   the irq argument of a configuration call
\*   done  the slots whose handler a returning hal_gpio_irq_enable replayed
\*   snap  m.snap of a returning smtc_modem_hal_enable_modem_irq
NoObs ==
    [ret |-> "none", fac |-> "none", slot |-> 0, found |-> "none",
     n |-> 0, s0 |-> NoView, disp |-> 0, call |-> NULL,
     arg |-> NULL, done |-> {}, snap |-> {}]

\* timer_create: the countdown exists and is not armed.
TimerDisarmed == [armed |-> FALSE, left |-> 0, sig |-> FALSE]

\* What is known of a timer slot that was never started:
\*   life   "fresh" | "started" | "stopped" | "restarted" (started after a stop)
\*   old    the callback the last completed hal_lp_timer_stop removed
\*   h      the callback the last hal_lp_timer_start gave (NULL after a stop)
\*   dur    the milliseconds of the last timer_settime of hal_lp_timer_start
\*   since  the milliseconds its countdown has run since then
\*   nexp   the expiries since then
\*   re     that start began on an armed countdown with no expiry in flight
\*   rearm  ... and none came before its timer_settime
\*   stale  a notification was pending at that timer_settime and has not been
\*          replayed since
\*   clean  that start armed an idle, unmasked slot, unmasked ever since
\*   first  at that start the other countdown was running: whose deadline
\*          comes first, "self" | "peer" | "none"
\*   nd     a notification has dispatched the slot's callback since then
\*   got    pl_timer_handler has run on the slot since the last
\*          hal_lp_timer_start wrote its callback
\*   credit the notifications delivered to the slot less the invocations of
\*          its callback, counted up to MaxCoalesce
TimerFresh ==
    [life |-> "fresh", old |-> NULL, h |-> NULL,
     dur |-> 0, since |-> 0, nexp |-> 0,
     re |-> FALSE, rearm |-> FALSE, stale |-> FALSE, clean |-> FALSE,
     first |-> "none", nd |-> FALSE, got |-> FALSE, credit |-> 0]

\* What is known of a pin slot that was never configured:
\*   life   "fresh" | "attached" | "detached" | "reattached"
\*   old    the handler the last hal_gpio_irq_detach removed
\*   off    the last hal_gpio_init_in gave BSP_GPIO_IRQ_MODE_OFF and a handler
\*   credit the edges delivered to the slot less the invocations of its
\*          handler, counted up to MaxCoalesce
PinFresh == [life |-> "fresh", old |-> NULL, off |-> FALSE, credit |-> 0]

\* What is known of the engine's masking calls:
\*   dis    the smtc_modem_hal_disable_modem_irq calls that have returned
\*          since the last smtc_modem_hal_enable_modem_irq returned
ModemFresh == [dis |-> 0]

\* The slots of a worker after hal_mcu_init(), no HAL call in progress.
GateIdle(f) ==
    /\ fac = f
    /\ lptim = [id \in Timers |-> LptimZero]
    /\ tmr = [id \in Timers |-> TimerDisarmed]
    /\ gpio = [i \in Pins |-> GpioZero]
    /\ isr = [i \in Pins |-> FALSE]
    /\ cb = [i \in Pins |-> "idle"]
    /\ m = MainIdle
    /\ coal = [timer |-> [id \in Timers |-> 0], pin |-> [i \in Pins |-> 0]]
    /\ mret = [timer |-> [id \in Timers |-> FALSE], pin |-> [i \in Pins |-> FALSE]]
    /\ obs = NoObs
    /\ \E w \in Timers \cap Pins :
         /\ (f \notin {"life", "clock", "pincfg", "replay"}) => w = 0
         /\ hist = [watch |-> w,
                    timer |-> [id \in Timers |-> TimerFresh],
                    pin |-> [i \in Pins |-> PinFresh],
                    modem |-> ModemFresh]

Bump(n) == IF n < MaxCoalesce THEN n + 1 ELSE n

\* One notification more, and one invocation of the handler when call is one.
Credit(n, call) == IF call # NULL THEN n ELSE Bump(n)

\* A run exercises one facility and keeps one kind of record of it:
\*   "timer"  the timer slots, counting masked notifications (coal, mret)
\*            and recording what each unmask and notification found (obs);
\*   "life"   the timer slots, recording starts and stops (hist: life, old, h);
\*   "clock"  the timer slots, recording deadlines
\*            (hist: h, dur, since, nexp, re, rearm);
\*   "race"   the timer slots, recording which of two running countdowns
\*            was dispatched first (hist: dur, clean, first, nd);
\*   "pin"    the pin slots, as "timer";
\*   "pincfg" the pin slots, recording configurations (hist: life, old, off);
\*   "replay" the timer slots, recording the notifications since the last
\*            start and those not dispatched (hist: got, credit);
\*   "pinreplay" the pin slots, recording the edges not dispatched
\*            (hist: credit);
\*   "pinclear" the pin slots, with calls of hal_gpio_clear_pending_irq;
\*   "modem"  the pin and the timer slots under the engine's
\*            smtc_modem_hal_disable_modem_irq / enable_modem_irq
\*            (hist: modem);
\*   "timerdown", "pindown" the timer slots, the pin slots, in a worker
\*            that may fail a HAL call and go through hal_mcu_reset.
TimerRuns == {"timer", "life", "clock", "race", "timerdown", "replay", "modem"}

PinRuns == {"pin", "pincfg", "pindown", "pinreplay", "modem", "pinclear"}

KeepCoal(c) == IF fac \in {"timer", "pin"} THEN c ELSE coal

KeepMret(x) == IF fac \in {"timer", "pin"} THEN x ELSE mret

KeepDone(d) == IF fac = "pin" THEN d ELSE {}

KeepObs(o) ==
    IF fac \in {"timer", "pin"}
    THEN o
    ELSE IF fac = "modem"
    THEN NoObs
    ELSE [NoObs EXCEPT !.ret = o.ret, !.fac = o.fac, !.slot = o.slot,
                       !.found = o.found, !.call = o.call]

\* The record of timer slot j as the run keeps it: a run that records
\* starts, stops or deadlines does so for one slot, hist.watch.
KeepTimerHist(j, t) ==
    IF fac \in {"life", "clock", "replay"} /\ j # hist.watch
    THEN TimerFresh
    ELSE IF fac = "life"
    THEN [TimerFresh EXCEPT !.life = t.life, !.old = t.old, !.h = t.h]
    ELSE IF fac = "clock"
    THEN [t EXCEPT !.life = "fresh", !.old = NULL,
                   !.clean = FALSE, !.first = "none", !.nd = FALSE,
                   !.got = FALSE, !.credit = 0]
    ELSE IF fac = "race"
    THEN [TimerFresh EXCEPT !.dur = t.dur, !.clean = t.clean,
                            !.first = t.first, !.nd = t.nd]
    ELSE IF fac = "replay"
    THEN [TimerFresh EXCEPT !.got = t.got, !.credit = t.credit]
    ELSE TimerFresh

KeepHist(x) ==
    IF fac \in {"life", "clock", "race", "replay"}
    THEN [x EXCEPT !.timer = [j \in Timers |-> KeepTimerHist(j, x.timer[j])]]
    ELSE IF fac = "pincfg"
    THEN [x EXCEPT !.pin = [i \in Pins |->
                     IF i = hist.watch
                     THEN [x.pin[i] EXCEPT !.credit = 0] ELSE PinFresh]]
    ELSE IF fac = "pinreplay"
    THEN [x EXCEPT !.pin = [i \in Pins |->
                     [PinFresh EXCEPT !.credit = x.pin[i].credit]]]
    ELSE hist

-----------------------------------------------------------------------------
(* Wake gate and application parameters: data                              *)

\* bool sleeping = false; the wake-up countdown of hal_rtc_init, not armed;
\* the main thread outside hal_mcu_set_sleep_for_ms.
\*   pc     "idle" | "flag": the next statement of the worker's main loop
\*          (run the engine, test the engine's IRQ flag);
\*          "set" | "park" | "poll" | "stop": the next statement of
\*          hal_mcu_set_sleep_for_ms and sleep_handler
\*   tick   sleep_time_ms, as the last smtc_modem_run_engine returned it
\*   flag   what the last smtc_modem_is_irq_flag_pending returned
\*   ms     the argument of the last call of hal_mcu_set_sleep_for_ms
\*   woken  hal_mcu_wakeup has run since sleep_handler set the flag
\*   hit    since the call armed the wake-up countdown, its signal has been
\*          handled or a handler has called hal_mcu_wakeup
\*   parks  calls of hal_mcu_set_sleep_for_ms that have returned
WakeZero ==
    [pc |-> "idle", tick |-> 0, flag |-> FALSE, ms |-> 0,
     sleeping |-> FALSE, rtc |-> TimerDisarmed,
     woken |-> FALSE, hit |-> FALSE, parks |-> 0]

\* The globals of main.c as the loader leaves them, before main() runs.
\*   pc     "start" before main() has read its arguments, "parsed" after,
\*          "sized" once compute_payload_size has returned
\*   argv   argv[1..argc-1], each argument a sequence of characters
\*   size   the last value compute_payload_size returned
\*   ev_pc  position of modem_event_callback: "out" (not running) | "get" |
\*          "case" | "alarm" | "end"
\*   ev     the event type smtc_modem_get_event gave last
\*   left   the events the engine still holds (event_pending_count)
\*   req    uplink requests made while handling that event
\*   port   the port of the last request (0: none yet)
\*   alarm  the seconds the alarm was started with while handling that event
\*          (0: not started)
\*   uplink_counter  the static counter of send_uplink_counter_on_port
\*   handled         JOINED and ALARM events whose handling has completed
AppZero ==
    [pc |-> "start", argv |-> <<>>,
     g_uplink_period_s |-> 60, g_packet_size |-> 12,
     g_packet_size_fixed |-> TRUE, size |-> 0,
     ev_pc |-> "out", ev |-> "none", left |-> 0, req |-> 0, port |-> 0,
     alarm |-> 0, uplink_counter |-> 0, handled |-> 0]

-----------------------------------------------------------------------------
(* Context storage: data                                                   *)

\* "/tmp/lorawan-dragino-nvm" before the first store, and what is known of
\* the calls made on it:
\*   file       the bytes of the file (file[k] is the byte at address k - 1)
\*   op         "none" | "store" | "restore" | "failed" | "restart": the last step
\*   last       the arguments of the last smtc_modem_hal_context_store, when
\*              it returned and no store was attempted since (else NoStore)
\*   ctx        ctx[t]: the arguments of the last store of type t that returned
\*   req        the arguments of the last smtc_modem_hal_context_restore
\*   out        the buffer that restore filled
\*   restarted  the worker has been restarted since the last store
\*   stores     calls of smtc_modem_hal_context_store so far
NoStore == [type |-> "none", offset |-> 0, size |-> 0, buf |-> <<>>]

CtxTypes == {"MODEM", "KEY_MODEM", "LORAWAN_STACK", "SECURE_ELEMENT"}

\* the context types the switch accepts and does nothing for
CtxUnused == {"FUOTA", "STORE_AND_FORWARD"}

NvmZero ==
    [file |-> <<>>, op |-> "none", last |-> NoStore,
     ctx |-> [t \in CtxTypes |-> NoStore],
     req |-> NoStore, out |-> <<>>, restarted |-> FALSE, stores |-> 0]

-----------------------------------------------------------------------------
(* The worker process: start-up, transport calls, panic and teardown       *)

\* No worker process exists (before the first fork, after a reap).
NoWorker ==
    [pc |-> "none", step |-> 0, failed |-> "none", killed |-> FALSE,
     log |-> <<>>, traces |-> 0, resets |-> 0, status |-> 0]

\* The child as fork() leaves it: about to run main_periodical_uplink().
FreshWorker == [NoWorker EXCEPT !.pc = "init", !.step = 1]

\* The OS and driver calls of hal_mcu_init(), in program order. Each one is
\* checked by its caller, which panics when it fails.
HalInitCalls ==
    << "gpioCfgInterfaces", "gpioInitialise",
       \* hal_gpio_init_out( RADIO_NSS, 1 )
       "gpioWrite", "gpioSetPullUpDown", "gpioSetMode",
       \* hal_gpio_init_in( RADIO_DIO_0 .. RADIO_DIO_2, RADIO_NRST )
       "gpioWrite", "gpioSetPullUpDown", "gpioSetMode",
       "gpioWrite", "gpioSetPullUpDown", "gpioSetMode",
       "gpioWrite", "gpioSetPullUpDown", "gpioSetMode",
       "gpioWrite", "gpioSetPullUpDown", "gpioSetMode",
       \* hal_lp_timer_init( HAL_LP_TIMER_ID_1 ), ( HAL_LP_TIMER_ID_2 )
       "sigaction", "timer_create",
       "sigaction", "timer_create",
       \* hal_spi_init
       "spiOpen",
       \* hal_rtc_init
       "timer_create", "sigaction" >>

\* The OS and driver calls the running worker makes through the HAL:
\* timer arming, GPIO configure/read/write/ISR registration, SPI transfer,
\* storage open/seek/read/write/close.
HalRunCalls ==
    { "timer_settime", "gpioWrite", "gpioRead", "gpioSetPullUpDown",
      "gpioSetMode", "gpioSetISRFunc", "spiXfer",
      "open", "lseek", "read", "write", "close" }

\* hal_mcu_reset(): the release calls, in program order, before exit( 3 ).
TeardownSteps ==
    << "hal_rtc_deinit:timer_delete",
       "hal_lp_timer_deinit(1):timer_delete", "hal_lp_timer_deinit(1):sigaction",
       "hal_lp_timer_deinit(2):timer_delete", "hal_lp_timer_deinit(2):sigaction",
       "hal_spi_deinit:spiClose",
       "hal_gpio_irq_deinit:gpioSetISRFunc",
       "gpioTerminate" >>

\* Entry of hal_mcu_reset(): the teardown starts from its first step.
hal_mcu_reset(w) ==
    [w EXCEPT !.pc = "reset", !.step = 1, !.log = <<>>,
              !.resets = IF @ < 2 THEN @ + 1 ELSE @]

\* mcu_panic(): the worker's single exit route; it funnels into hal_mcu_reset().
mcu_panic(w) == hal_mcu_reset(w)

\* mcu_panic_trace(): logs the failure, "no reset to avoid error-looping".
mcu_panic_trace(w) == [w EXCEPT !.traces = @ + 1]

\* A checked HAL call of the worker: on failure the caller panics.
HalCall(w, call, ok, next) ==
    IF ok THEN next ELSE mcu_panic([w EXCEPT !.failed = call])

\* One release call of the teardown: a failure is logged and the teardown
\* goes on with the next step.
TeardownCall_mut(w, ok) ==
    LET w1 == [w EXCEPT !.log = Append(@, TeardownSteps[w.step]), !.step = @ + 1]
    IN  IF ok THEN w1 ELSE mcu_panic(w1)

TeardownCall(w, ok) ==
    LET w1 == [w EXCEPT !.log = Append(@, TeardownSteps[w.step]), !.step = @ + 1]
    IN  IF ok THEN w1 ELSE mcu_panic_trace(w1)

\* The last statement of hal_mcu_reset(): exit( 3 ).
hal_mcu_reset_exit_mut(w) ==
    [w EXCEPT !.pc = "zombie", !.step = 0, !.status = ExitStatus(0)]

hal_mcu_reset_exit(w) ==
    [w EXCEPT !.pc = "zombie", !.step = 0, !.status = ExitStatus(3)]

\* hal_mcu_init(): the next start-up call succeeds or fails.
WorkerInitCall ==
    /\ worker.pc = "init"
    /\ \E ok \in BOOLEAN :
         worker' = HalCall(worker, HalInitCalls[worker.step], ok,
                           IF worker.step < Len(HalInitCalls)
                           THEN [worker EXCEPT !.step = @ + 1]
                           ELSE [worker EXCEPT !.pc = "run", !.step = 0])
    /\ UNCHANGED <<sup_pc, cpid, wstatus, forks, reaped>>
    /\ UNCHANGED <<gateVars, wk, app, nvm>>

\* The main loop: a transport call succeeds or fails.
WorkerRunCall ==
    /\ worker.pc = "run"
    /\ \E call \in HalRunCalls, ok \in BOOLEAN :
         worker' = HalCall(worker, call, ok, worker)
    /\ UNCHANGED <<sup_pc, cpid, wstatus, forks, reaped>>
    /\ UNCHANGED <<gateVars, wk, app, nvm>>

\* timer_delete( handle ): the countdown is gone. What becomes of a signal
\* it has already queued is left open by POSIX: it stays queued or is dropped.
timer_delete(t, drop) == [armed |-> FALSE, left |-> 0, sig |-> t.sig /\ ~drop]

\* sigaction( signo, SIG_IGN ): a queued signal is discarded and later ones
\* are ignored, so the countdown has no further effect on the slot.
sigaction_SIG_IGN(t) == TimerDisarmed

\* The countdowns after one release call of hal_mcu_reset; lptim[] is not
\* written by hal_lp_timer_deinit.
hal_lp_timer_deinit(step, ok, drop, t) ==
    IF ~ok THEN t
    ELSE IF step = "hal_lp_timer_deinit(1):timer_delete"
    THEN [t EXCEPT ![0] = timer_delete(@, drop)]
    ELSE IF step = "hal_lp_timer_deinit(1):sigaction"
    THEN [t EXCEPT ![0] = sigaction_SIG_IGN(@)]
    ELSE IF step = "hal_lp_timer_deinit(2):timer_delete"
    THEN [t EXCEPT ![1] = timer_delete(@, drop)]
    ELSE IF step = "hal_lp_timer_deinit(2):sigaction"
    THEN [t EXCEPT ![1] = sigaction_SIG_IGN(@)]
    ELSE t

\* The registered edge callbacks after one release call of hal_mcu_reset:
\* hal_gpio_irq_deinit unregisters the callback of every slot with
\* irq != NULL and writes no field of gpio[]; gpioTerminate stops the driver.
hal_gpio_irq_deinit(step, ok, g, r) ==
    IF step = "hal_gpio_irq_deinit:gpioSetISRFunc" /\ ok
    THEN [i \in Pins |-> r[i] /\ g[i].irq = NULL]
    ELSE IF step = "gpioTerminate"
    THEN [i \in Pins |-> FALSE]
    ELSE r

\* hal_mcu_reset(): the next release call succeeds or fails. Unregistering
\* an edge callback joins the pin's driver thread.
WorkerTeardownCall ==
    /\ worker.pc = "reset"
    /\ worker.step <= Len(TeardownSteps)
    /\ \E ok \in BOOLEAN, drop \in BOOLEAN :
         LET step == TeardownSteps[worker.step]
             isr1 == hal_gpio_irq_deinit(step, ok, gpio, isr) IN
         \* gpioTerminate() returns nothing: it cannot report a failure
         /\ (step = "gpioTerminate" => ok)
         /\ \A i \in Pins : (isr[i] /\ ~isr1[i]) => cb[i] = "idle"
         /\ worker' = TeardownCall(worker, ok)
         /\ tmr' = hal_lp_timer_deinit(step, ok, drop, tmr)
         /\ isr' = isr1
    /\ obs' = KeepObs(NoObs)
    /\ UNCHANGED <<sup_pc, cpid, wstatus, forks, reaped>>
    /\ UNCHANGED <<fac, lptim, gpio, cb, m, coal, mret, hist, wk, app, nvm>>

\* hal_mcu_reset(): exit( 3 ) after the last release call.
WorkerResetExit ==
    /\ worker.pc = "reset"
    /\ worker.step > Len(TeardownSteps)
    /\ worker' = hal_mcu_reset_exit(worker)
    /\ UNCHANGED <<sup_pc, cpid, wstatus, forks, reaped>>
    /\ UNCHANGED <<gateVars, wk, app, nvm>>

\* The worker leaves by exit( code ) from outside the HAL (library code).
WorkerExits ==
    /\ worker.pc \in {"init", "run"}
    /\ \E code \in ExitCodes :
         worker' = [worker EXCEPT !.pc = "zombie", !.step = 0,
                                  !.status = ExitStatus(code)]
    /\ UNCHANGED <<sup_pc, cpid, wstatus, forks, reaped>>
    /\ UNCHANGED <<gateVars, wk, app, nvm>>

\* The worker dies by a signal it does not catch.
WorkerKilled ==
    /\ worker.pc \in {"init", "run", "reset"}
    /\ \E sig \in FatalSignals :
         worker' = [worker EXCEPT !.pc = "zombie", !.step = 0, !.killed = TRUE,
                                  !.status = SignalStatus(sig)]
    /\ UNCHANGED <<sup_pc, cpid, wstatus, forks, reaped>>
    /\ UNCHANGED <<gateVars, wk, app, nvm>>

-----------------------------------------------------------------------------
(* The supervisor: the do/while fork loop of main()                        *)

\* The loop condition: WIFEXITED( wstatus ) && WEXITSTATUS( wstatus ) == 3.
RestartRequested_nonzero(s) == WIFEXITED(s) /\ WEXITSTATUS(s) # 0

RestartRequested_anyexit(s) == WIFEXITED(s)

RestartRequested(s) == WIFEXITED(s) /\ WEXITSTATUS(s) = RESTART_CODE

\* cpid = fork(): a child is created, or fork fails and returns -1.
SupFork ==
    /\ sup_pc = "fork"
    /\ forks < MaxForks
    /\ \E ok \in BOOLEAN :
         IF ok
         THEN /\ cpid' = forks + 1
              /\ forks' = forks + 1
              /\ worker' = FreshWorker
         ELSE /\ cpid' = -1
              /\ UNCHANGED <<forks, worker>>
    /\ sup_pc' = "wait"
    /\ UNCHANGED <<wstatus, reaped>>
    /\ UNCHANGED <<gateVars, wk, app, nvm>>

\* waitpid( pid, &wstatus, 0 ): "reaped" when the child has terminated,
\* "blocked" while it runs; with pid = -1 it waits for any child, there is
\* none, so it fails at once ("ECHILD"). "running" (return without a reap
\* while the child runs) is what the WNOHANG option would give.
waitpid_nohang(pid, w) ==
    IF pid = -1 THEN "ECHILD"
    ELSE IF w.pc = "zombie" THEN "reaped" ELSE "running"

waitpid(pid, w) ==
    IF pid = -1 THEN "ECHILD"
    ELSE IF w.pc = "zombie" THEN "reaped" ELSE "blocked"

\* waitpid( cpid, &wstatus, 0 ): a call that reaps nothing leaves wstatus as
\* it was.
SupWait ==
    /\ sup_pc = "wait"
    /\ waitpid(cpid, worker) # "blocked"
    /\ IF waitpid(cpid, worker) # "reaped"
       THEN UNCHANGED <<wstatus, reaped, worker>>
       ELSE /\ wstatus' = worker.status
            /\ reaped' = Append(reaped, [status |-> worker.status,
                                         panic  |-> worker.resets > 0,
                                         killed |-> worker.killed])
            /\ worker' = NoWorker
    /\ sup_pc' = "cond"
    /\ UNCHANGED <<cpid, forks>>
    /\ UNCHANGED <<gateVars, wk, app, nvm>>

\* while( WIFEXITED( wstatus ) && WEXITSTATUS( wstatus ) == 3 ); return 0;
SupCond ==
    /\ sup_pc = "cond"
    /\ sup_pc' = IF RestartRequested(wstatus) THEN "fork" ELSE "done"
    /\ UNCHANGED <<cpid, wstatus, forks, reaped, worker>>
    /\ UNCHANGED <<gateVars, wk, app, nvm>>

SupState0 ==
    /\ sup_pc = "fork"
    /\ cpid = 0
    /\ wstatus = 0
    /\ forks = 0
    /\ reaped = <<>>
    /\ worker = NoWorker

SupNext ==
    \/ SupFork
    \/ SupWait
    \/ SupCond
    \/ WorkerInitCall
    \/ WorkerRunCall
    \/ WorkerTeardownCall
    \/ WorkerResetExit
    \/ WorkerExits
    \/ WorkerKilled

SupInit == SupState0 /\ GateIdle("timer") /\ wk = WakeZero /\ app = AppZero /\ nvm = NvmZero

SupSpec == SupInit /\ [][SupNext]_vars


\* The scheduler keeps running a worker that is in its teardown.
SupFairSpec ==
    /\ SupSpec
    /\ WF_vars(WorkerTeardownCall)
    /\ WF_vars(WorkerResetExit)

-----------------------------------------------------------------------------
(* TimerFacility: smtc_hal_lp_timer.c                                      *)
(*                                                                         *)
(* The main thread runs the HAL calls statement by statement. An expiry    *)
(* signal interrupts it between any two statements and pl_timer_handler    *)
(* runs to its end before the main thread goes on.                         *)

TimerView(s) == SlotView(s.blocked, s.pending, s.callback)

\* hal_lp_timer_irq_disable: lptim[id].blocked = true
hal_lp_timer_irq_disable_drops(s) ==
    [s EXCEPT !.blocked = TRUE, !.pending = FALSE]

hal_lp_timer_irq_disable(s) == [s EXCEPT !.blocked = TRUE]

\* hal_lp_timer_irq_enable, first statement: lptim[id].blocked = false
hal_lp_timer_irq_enable_unblock(s) == [s EXCEPT !.blocked = FALSE]

\* hal_lp_timer_irq_enable: if( pending && callback != NULL )
hal_lp_timer_irq_enable_replays_always(s) == s.callback # NULL

hal_lp_timer_irq_enable_replays(s) == s.pending /\ s.callback # NULL

\* hal_lp_timer_irq_enable, after the callback: lptim[id].pending = false
hal_lp_timer_irq_enable_clear_forgotten(s) == s

hal_lp_timer_irq_enable_clear(s) == [s EXCEPT !.pending = FALSE]

\* pl_timer_handler: the slot it leaves and the callback it invokes (NULL:
\* none).
pl_timer_handler_sets_pending(s) ==
    IF s.blocked
    THEN [slot |-> [s EXCEPT !.pending = TRUE], call |-> NULL]
    ELSE [slot |-> [s EXCEPT !.pending = TRUE], call |-> s.callback]

pl_timer_handler(s) ==
    IF s.blocked
    THEN [slot |-> [s EXCEPT !.pending = TRUE], call |-> NULL]
    ELSE [slot |-> s, call |-> s.callback]

\* What a completed notification reports.
NotifyObs(f, id, view, call) ==
    [NoObs EXCEPT !.ret = "notify", !.fac = f, !.slot = id,
                  !.found = IF view.blocked THEN "masked" ELSE "unmasked",
                  !.s0 = view,
                  !.disp = IF call # NULL THEN 1 ELSE 0,
                  !.call = call]

\* What a completed unmask of one slot reports.
UnmaskObs(f) ==
    [NoObs EXCEPT !.ret = "unmask", !.fac = f, !.slot = m.i,
                  !.n = m.n, !.s0 = m.s0, !.disp = m.disp, !.done = m.done]

\* milliseconds the engine may ask for
Durations == {50, 100}

\* A run that records no deadline starts every countdown for the same time.
RunDurations == IF fac \in {"clock", "race"} THEN Durations ELSE {50}

\* struct itimerspec its of hal_lp_timer_start and hal_rtc_wakeup_timer_set_ms
ItValue(ms) == [tv_sec |-> ms \div 1000, tv_nsec |-> (ms % 1000) * 1000000]

\* static struct timespec ZERO
ZERO == [tv_sec |-> 0, tv_nsec |-> 0]

\* timer_settime( handle, 0, &its, NULL ): a zero value disarms the countdown,
\* any other value arms it for that long, replacing what was left; a signal
\* already queued stays queued.
timer_settime_earliest(t, its) ==
    LET ms == its.tv_sec * 1000 + its.tv_nsec \div 1000000 IN
    IF its = ZERO
    THEN [t EXCEPT !.armed = FALSE, !.left = 0]
    ELSE [t EXCEPT !.armed = TRUE,
                   !.left = IF t.armed /\ t.left < ms THEN t.left ELSE ms]

timer_settime(t, its) ==
    IF its = ZERO
    THEN [t EXCEPT !.armed = FALSE, !.left = 0]
    ELSE [t EXCEPT !.armed = TRUE,
                   !.left = its.tv_sec * 1000 + its.tv_nsec \div 1000000]

\* hal_lp_timer_init: sev.sigev_value.sival_int = id, which pl_timer_handler
\* reads back as si->si_value.sival_int
sival_int_unset(id) == id - id

sival_int_next(id) == (id + 1) % HAL_LP_TIMER_NB

sival_int(id) == id

\* hal_lp_timer_start: lptim[id].tmr_irq = *tmr_irq
hal_lp_timer_start_assign(s, h) == [s EXCEPT !.callback = h]

\* hal_lp_timer_stop: lptim[id].tmr_irq = { NULL, NULL }
hal_lp_timer_stop_clear_kept(s) == s

hal_lp_timer_stop_clear(s) == [s EXCEPT !.callback = NULL]

\* The other countdowns that run, on slots started idle and unmasked since.
RunningPeers(id) == {j \in Timers \ {id} : tmr[j].armed /\ hist.timer[j].clean}

\* hal_lp_timer_start, first statement: lptim[id].tmr_irq = *tmr_irq
TimerStartAssign(id, ms, h) ==
    /\ fac \in TimerRuns /\ m.op = "idle"
    /\ lptim' = [lptim EXCEPT ![id] = hal_lp_timer_start_assign(@, h)]
    /\ m' = [MainIdle EXCEPT !.op = "tim_start", !.i = id, !.ms = ms]
    /\ obs' = KeepObs(NoObs)
    /\ hist' = KeepHist([hist EXCEPT !.timer = [j \in Timers |->
           IF j = id
           THEN [@[j] EXCEPT
                   !.life = IF @ \in {"stopped", "restarted"}
                            THEN "restarted" ELSE "started",
                   !.old = IF @ = h THEN NULL ELSE @,
                   !.h = h,
                   !.re = tmr[id].armed /\ ~tmr[id].sig,
                   !.rearm = FALSE, !.stale = FALSE,
                   !.clean = FALSE, !.first = "none", !.got = FALSE]
           ELSE [@[j] EXCEPT !.first = "none"]]])
    /\ UNCHANGED <<fac, tmr, gpio, isr, cb, coal, mret>>
    /\ UNCHANGED <<supVars, wk, app, nvm>>

\* hal_lp_timer_start, timer_settime: the one-shot countdown is armed.
TimerStartArm ==
    /\ m.op = "tim_start"
    /\ tmr' = [tmr EXCEPT ![m.i] = timer_settime(@, ItValue(m.ms))]
    /\ m' = MainIdle
    /\ obs' = KeepObs(NoObs)
    /\ hist' = KeepHist([hist EXCEPT !.timer[m.i] = [@ EXCEPT
           !.dur = m.ms, !.since = 0, !.nexp = 0, !.nd = FALSE,
           !.rearm = hist.timer[m.i].re /\ tmr[m.i].armed /\ ~tmr[m.i].sig,
           !.stale = lptim[m.i].pending,
           !.clean = /\ ~lptim[m.i].blocked /\ ~lptim[m.i].pending
                     /\ ~tmr[m.i].armed /\ ~tmr[m.i].sig /\ m.ms > 0,
           !.first = IF \E j \in RunningPeers(m.i) : tmr[j].left > m.ms
                     THEN "self"
                     ELSE IF \E j \in RunningPeers(m.i) : tmr[j].left < m.ms
                          THEN "peer" ELSE "none"]])
    /\ UNCHANGED <<fac, lptim, gpio, isr, cb, coal, mret>>
    /\ UNCHANGED <<supVars, wk, app, nvm>>

\* hal_lp_timer_stop, first statement: the callback is cleared.
TimerStopClear(id) ==
    /\ fac \in TimerRuns /\ m.op = "idle"
    /\ lptim' = [lptim EXCEPT ![id] = hal_lp_timer_stop_clear(@)]
    /\ m' = [MainIdle EXCEPT !.op = "tim_stop", !.i = id,
                             !.s0 = TimerView(lptim[id])]
    /\ obs' = KeepObs(NoObs)
    /\ hist' = KeepHist([hist EXCEPT !.timer = [j \in Timers |->
           IF j = id
           THEN [@[j] EXCEPT !.h = NULL, !.re = FALSE, !.rearm = FALSE,
                             !.stale = FALSE,
                             !.clean = FALSE, !.first = "none"]
           ELSE [@[j] EXCEPT !.first = "none"]]])
    /\ UNCHANGED <<fac, tmr, gpio, isr, cb, coal, mret>>
    /\ UNCHANGED <<supVars, wk, app, nvm>>

\* hal_lp_timer_stop, timer_settime with a zero value: the countdown is
\* disarmed; a signal already queued stays queued.
TimerStopDisarm ==
    /\ m.op = "tim_stop"
    /\ tmr' = [tmr EXCEPT ![m.i] = timer_settime(@, ZERO)]
    /\ m' = MainIdle
    /\ obs' = KeepObs([NoObs EXCEPT !.ret = "stop", !.fac = "timer", !.slot = m.i,
                            !.found = IF tmr[m.i].sig THEN "inflight" ELSE "quiet"])
    /\ hist' = KeepHist([hist EXCEPT !.timer[m.i].life = "stopped",
                            !.timer[m.i].old = m.s0.h])
    /\ UNCHANGED <<fac, lptim, gpio, isr, cb, coal, mret>>
    /\ UNCHANGED <<supVars, wk, app, nvm>>

\* hal_lp_timer_start and hal_lp_timer_stop, timer_settime returns -1: the
\* worker panics with the callback already written; the main thread never
\* returns from the call.
TimerSettimeFails ==
    /\ m.op \in {"tim_start", "tim_stop"}
    /\ worker.pc = "run"
    /\ worker' = HalCall(worker, "timer_settime", FALSE, worker)
    /\ m' = [MainIdle EXCEPT !.op = "panic", !.i = m.i,
                             !.s0 = TimerView(lptim[m.i])]
    /\ obs' = KeepObs([NoObs EXCEPT !.ret = "settime_failed", !.fac = "timer",
                                    !.slot = m.i])
    /\ UNCHANGED <<fac, hist, lptim, tmr, gpio, isr, cb, coal, mret>>
    /\ UNCHANGED <<sup_pc, cpid, wstatus, forks, reaped, wk, app, nvm>>

\* hal_lp_timer_irq_disable( id )
TimerIrqDisable(id) ==
    /\ fac \in TimerRuns /\ m.op = "idle"
    /\ lptim' = [lptim EXCEPT ![id] = hal_lp_timer_irq_disable(@)]
    /\ mret' = KeepMret([mret EXCEPT !.timer[id] = TRUE])
    /\ obs' = KeepObs([NoObs EXCEPT !.ret = "mask", !.fac = "timer", !.slot = id])
    /\ hist' = KeepHist([hist EXCEPT !.timer[id].clean = FALSE])
    /\ UNCHANGED <<fac, tmr, gpio, isr, cb, m, coal>>
    /\ UNCHANGED <<supVars, wk, app, nvm>>

\* hal_lp_timer_irq_enable( id ), first statement
TimerIrqEnableUnblock(id) ==
    /\ fac \in TimerRuns /\ m.op = "idle"
    /\ lptim' = [lptim EXCEPT ![id] = hal_lp_timer_irq_enable_unblock(@)]
    /\ m' = [MainIdle EXCEPT !.op = "tim_en", !.i = id,
                             !.n = coal.timer[id], !.s0 = TimerView(lptim[id])]
    /\ mret' = KeepMret([mret EXCEPT !.timer[id] = FALSE])
    /\ obs' = KeepObs(NoObs)
    /\ UNCHANGED <<fac, hist, tmr, gpio, isr, cb, coal>>
    /\ UNCHANGED <<supVars, wk, app, nvm>>

\* hal_lp_timer_irq_enable( id ): the test, and the callback when it holds.
TimerIrqEnableTest ==
    /\ m.op = "tim_en"
    /\ IF hal_lp_timer_irq_enable_replays(lptim[m.i])
       THEN /\ m' = [m EXCEPT !.op = "tim_en_clr", !.disp = @ + 1]
            /\ obs' = KeepObs([NoObs EXCEPT !.fac = "timer", !.slot = m.i,
                                    !.call = lptim[m.i].callback])
            /\ hist' = KeepHist([hist EXCEPT !.timer[m.i].credit = @ - 1])
            /\ UNCHANGED coal
       ELSE /\ m' = MainIdle
            /\ obs' = KeepObs(UnmaskObs("timer"))
            /\ coal' = KeepCoal([coal EXCEPT !.timer[m.i] = 0])
            /\ UNCHANGED hist
    /\ UNCHANGED <<fac, lptim, tmr, gpio, isr, cb, mret>>
    /\ UNCHANGED <<supVars, wk, app, nvm>>

\* hal_lp_timer_irq_enable( id ): pending = false after the callback.
TimerIrqEnableClear ==
    /\ m.op = "tim_en_clr"
    /\ lptim' = [lptim EXCEPT ![m.i] = hal_lp_timer_irq_enable_clear(@)]
    /\ m' = MainIdle
    /\ obs' = KeepObs(UnmaskObs("timer"))
    /\ coal' = KeepCoal([coal EXCEPT !.timer[m.i] = 0])
    /\ hist' = KeepHist([hist EXCEPT !.timer[m.i].stale = FALSE])
    /\ UNCHANGED <<fac, tmr, gpio, isr, cb, mret>>
    /\ UNCHANGED <<supVars, wk, app, nvm>>

\* The milliseconds to the next deadline of a running countdown.
NextDeadline ==
    LET run == {j \in Timers : tmr[j].armed} IN
    CHOOSE d \in {tmr[j].left : j \in run} : \A j \in run : d <= tmr[j].left

\* Time passes up to the next deadline. A queued signal is delivered to the
\* running process before the clock gets that far.
TimerTick ==
    /\ fac \in TimerRuns
    /\ \E j \in Timers : tmr[j].armed
    /\ \A j \in Timers : ~tmr[j].sig
    /\ NextDeadline > 0
    /\ tmr' = [j \in Timers |->
                 IF tmr[j].armed
                 THEN [tmr[j] EXCEPT !.left = @ - NextDeadline]
                 ELSE tmr[j]]
    /\ hist' = KeepHist([hist EXCEPT !.timer = [j \in Timers |->
                 IF tmr[j].armed
                 THEN [@[j] EXCEPT !.since = @ + NextDeadline]
                 ELSE @[j]]])
    /\ obs' = KeepObs(NoObs)
    /\ UNCHANGED <<fac, lptim, gpio, isr, cb, m, coal, mret>>
    /\ UNCHANGED <<supVars, wk, app, nvm>>

\* The countdown of timer id reaches zero: the OS queues its signal and the
\* one-shot countdown is no longer armed.
TimerExpire(id) ==
    /\ fac \in TimerRuns
    /\ tmr[id].armed /\ tmr[id].left = 0
    /\ tmr' = [tmr EXCEPT ![id] = [armed |-> FALSE, left |-> 0, sig |-> TRUE]]
    /\ obs' = KeepObs([NoObs EXCEPT !.ret = "expire", !.fac = "timer", !.slot = id])
    /\ hist' = KeepHist([hist EXCEPT !.timer[id].nexp = IF @ < 2 THEN @ + 1 ELSE @])
    /\ UNCHANGED <<fac, lptim, gpio, isr, cb, m, coal, mret>>
    /\ UNCHANGED <<supVars, wk, app, nvm>>

\* The signal of timer id is delivered: pl_timer_handler runs on the slot the
\* signal's value names.
TimerSignal(id) ==
    /\ tmr[id].sig
    /\ LET slot == sival_int(id)
           r == pl_timer_handler(lptim[slot]) IN
         /\ lptim' = [lptim EXCEPT ![slot] = r.slot]
         /\ obs' = KeepObs(NotifyObs("timer", slot, TimerView(lptim[slot]), r.call))
         /\ coal' = IF lptim[slot].blocked
                    THEN KeepCoal([coal EXCEPT !.timer[slot] = Bump(@)])
                    ELSE coal
         /\ hist' = KeepHist([hist EXCEPT
                       !.timer[slot].nd = @ \/ r.call # NULL,
                       !.timer[slot].got = TRUE,
                       !.timer[slot].credit = Credit(@, r.call)])
    /\ tmr' = [tmr EXCEPT ![id].sig = FALSE]
    /\ UNCHANGED <<fac, gpio, isr, cb, m, mret>>
    /\ UNCHANGED <<supVars, wk, app, nvm>>

TimerNext ==
    \/ \E id \in Timers, ms \in RunDurations, h \in Handlers :
          TimerStartAssign(id, ms, h)
    \/ TimerStartArm
    \/ \E id \in Timers : TimerStopClear(id)
    \/ TimerStopDisarm
    \/ \E id \in Timers : TimerIrqDisable(id)
    \/ \E id \in Timers : TimerIrqEnableUnblock(id)
    \/ TimerIrqEnableTest
    \/ TimerIrqEnableClear
    \/ TimerTick
    \/ \E id \in Timers : TimerExpire(id)
    \/ \E id \in Timers : TimerSignal(id)

-----------------------------------------------------------------------------
(* PinIrqController: smtc_hal_gpio.c                                       *)
(*                                                                         *)
(* gpio_irq_callback runs on the driver's thread of the pin, so its        *)
(* statements interleave with those of the main thread. Unregistering a    *)
(* pin's callback stops and joins that thread.                             *)

GpioView(s) == SlotView(s.blocked, s.pending, s.irq)

\* hal_gpio_irq_attach( irq ) for the slot of irq->pin: the slot it leaves
\* and whether gpioSetISRFunc registered the callback.
hal_gpio_irq_attach_any_mode(s, irq) ==
    IF irq = NULL \/ irq_callback(irq) = NULL
    THEN [slot |-> s, registered |-> FALSE]
    ELSE [slot |-> [s EXCEPT !.irq = irq], registered |-> TRUE]

hal_gpio_irq_attach(s, irq) ==
    IF irq = NULL \/ irq_callback(irq) = NULL \/ s.irq_mode = "OFF"
    THEN [slot |-> s, registered |-> FALSE]
    ELSE [slot |-> [s EXCEPT !.irq = irq], registered |-> TRUE]

\* hal_gpio_irq_disable, one iteration: gpio[i].blocked = true
hal_gpio_irq_disable_iter(s) == [s EXCEPT !.blocked = TRUE]

\* hal_gpio_irq_enable, one iteration: gpio[i].blocked = false
hal_gpio_irq_enable_unblock_nested(s) == s

hal_gpio_irq_enable_unblock(s) == [s EXCEPT !.blocked = FALSE]

\* hal_gpio_irq_enable: if( pending && irq != NULL && irq->callback != NULL )
hal_gpio_irq_enable_replays(s) == s.pending /\ s.irq # NULL

\* hal_gpio_irq_enable, after the callback: gpio[i].pending = false
hal_gpio_irq_enable_clear(s) == [s EXCEPT !.pending = FALSE]

\* hal_gpio_irq_detach: gpioSetISRFunc( pin, 0, 0, NULL ) first; when it
\* fails, mcu_panic() and nothing after it runs; when it succeeds,
\* gpio[...].irq = NULL
hal_gpio_irq_detach_kept(s, ok) == s

hal_gpio_irq_detach_clears_first(s, ok) == [s EXCEPT !.irq = NULL]

hal_gpio_irq_detach(s, ok) == IF ok THEN [s EXCEPT !.irq = NULL] ELSE s

\* gpio_irq_callback: if( gpio[index].blocked )
gpio_irq_callback_blocked(s) == s.blocked

\* gpio_irq_callback, masked path: gpio[index].pending = true
gpio_irq_callback_set_pending(s) == [s EXCEPT !.pending = TRUE]

\* gpio_irq_callback, unmasked path: the callback it invokes (NULL: none)
gpio_irq_callback_call(s) == s.irq

\* The record of a pin slot after a call that gives it the handler irq.
PinGiven(r, irq) ==
    IF irq_callback(irq) = NULL
    THEN r
    ELSE [r EXCEPT !.life = IF @ \in {"detached", "reattached"}
                            THEN "reattached" ELSE "attached",
                   !.old = IF @ = irq THEN NULL ELSE @]

\* hal_gpio_init_in( pin, pull_mode, irq_mode, irq )
GpioInitIn(p, mode, irq) ==
    /\ fac \in PinRuns /\ m.op = "idle"
    /\ LET r == hal_gpio_irq_attach([gpio[p] EXCEPT !.irq_mode = mode], irq) IN
         /\ gpio' = [gpio EXCEPT ![p] = r.slot]
         /\ isr' = [isr EXCEPT ![p] = @ \/ r.registered]
    /\ obs' = KeepObs([NoObs EXCEPT !.ret = "init_in", !.fac = "pin", !.slot = p,
                                    !.found = mode, !.arg = irq])
    /\ hist' = KeepHist([hist EXCEPT !.pin[p] =
                   [PinGiven(@, irq) EXCEPT
                        !.off = (mode = "OFF" /\ irq_callback(irq) # NULL)]])
    /\ UNCHANGED <<fac, lptim, tmr, cb, m, coal, mret>>
    /\ UNCHANGED <<supVars, wk, app, nvm>>

\* hal_gpio_init_out( pin, value ): gpio_init sets the level, the pull and
\* the direction through the driver; gpio[] and the driver's edge callback
\* are not touched.
GpioInitOut(p) ==
    /\ fac \in PinRuns /\ m.op = "idle"
    /\ obs' = KeepObs([NoObs EXCEPT !.ret = "init_out", !.fac = "pin", !.slot = p])
    /\ UNCHANGED <<fac, hist, lptim, tmr, gpio, isr, cb, m, coal, mret>>
    /\ UNCHANGED <<supVars, wk, app, nvm>>

\* hal_gpio_irq_attach( irq ), irq->pin = p
GpioIrqAttach(p, irq) ==
    /\ fac \in PinRuns /\ m.op = "idle"
    /\ LET r == hal_gpio_irq_attach(gpio[p], irq) IN
         /\ gpio' = [gpio EXCEPT ![p] = r.slot]
         /\ isr' = [isr EXCEPT ![p] = @ \/ r.registered]
    /\ obs' = KeepObs(NoObs)
    /\ hist' = KeepHist([hist EXCEPT !.pin[p] = PinGiven(@, irq)])
    /\ UNCHANGED <<fac, lptim, tmr, cb, m, coal, mret>>
    /\ UNCHANGED <<supVars, wk, app, nvm>>

\* hal_gpio_irq_detach( irq ), irq != NULL, irq->pin = p: the driver callback
\* is unregistered (its thread is joined), then the handler is cleared. When
\* the unregistration fails the worker panics: the main thread never returns
\* from the call (m.op = "panic", m.i the pin, m.s0 the slot as it was).
GpioIrqDetach(p) ==
    /\ fac \in PinRuns /\ m.op = "idle"
    /\ \E ok \in BOOLEAN :
         /\ IF ok THEN cb[p] = "idle" ELSE worker.pc = "run"
         /\ isr' = IF ok THEN [isr EXCEPT ![p] = FALSE] ELSE isr
         /\ gpio' = [gpio EXCEPT ![p] = hal_gpio_irq_detach(@, ok)]
         /\ worker' = HalCall(worker, "gpioSetISRFunc", ok, worker)
         /\ m' = IF ok THEN m
                 ELSE [MainIdle EXCEPT !.op = "panic", !.i = p,
                                       !.s0 = GpioView(gpio[p])]
         /\ obs' = KeepObs([NoObs EXCEPT
                              !.ret = IF ok THEN "detach" ELSE "detach_failed",
                              !.fac = "pin", !.slot = p])
         /\ hist' = IF ok
                    THEN KeepHist([hist EXCEPT !.pin[p].life = "detached",
                                               !.pin[p].old = gpio[p].irq])
                    ELSE hist
    /\ UNCHANGED <<fac, lptim, tmr, cb, coal, mret>>
    /\ UNCHANGED <<sup_pc, cpid, wstatus, forks, reaped, wk, app, nvm>>

\* hal_gpio_irq_disable: one iteration of its loop; the last one returns.
GpioIrqDisable ==
    /\ fac \in PinRuns /\ m.op \in {"idle", "gpio_dis"}
    /\ gpio' = [gpio EXCEPT ![m.i] = hal_gpio_irq_disable_iter(@)]
    /\ IF m.i + 1 < P_NUM
       THEN /\ m' = [MainIdle EXCEPT !.op = "gpio_dis", !.i = m.i + 1]
            /\ obs' = KeepObs(NoObs)
            /\ UNCHANGED mret
       ELSE /\ m' = MainIdle
            /\ obs' = KeepObs([NoObs EXCEPT !.ret = "mask", !.fac = "pin", !.slot = m.i])
            /\ mret' = KeepMret([mret EXCEPT !.pin = [i \in Pins |-> TRUE]])
    /\ UNCHANGED <<fac, hist, lptim, tmr, isr, cb, coal>>
    /\ UNCHANGED <<supVars, wk, app, nvm>>

\* hal_gpio_irq_enable, iteration m.i: gpio[i].blocked = false
GpioIrqEnableUnblock ==
    /\ fac \in PinRuns /\ m.op \in {"idle", "gpio_en"}
    /\ gpio' = [gpio EXCEPT ![m.i] = hal_gpio_irq_enable_unblock(@)]
    /\ m' = [MainIdle EXCEPT !.op = "gpio_en_test", !.i = m.i,
                             !.n = coal.pin[m.i], !.s0 = GpioView(gpio[m.i]),
                             !.done = m.done]
    /\ mret' = IF m.op = "idle"
               THEN KeepMret([mret EXCEPT !.pin = [i \in Pins |-> FALSE]])
               ELSE mret
    /\ obs' = KeepObs(NoObs)
    /\ UNCHANGED <<fac, hist, lptim, tmr, isr, cb, coal>>
    /\ UNCHANGED <<supVars, wk, app, nvm>>

\* The main thread after the unmask of slot m.i: next iteration or return.
AfterPinUnmask ==
    IF m.i + 1 < P_NUM
    THEN [MainIdle EXCEPT !.op = "gpio_en", !.i = m.i + 1, !.done = m.done]
    ELSE MainIdle

\* hal_gpio_irq_enable, iteration m.i: the test, and the callback when it holds.
GpioIrqEnableTest ==
    /\ m.op = "gpio_en_test"
    /\ IF hal_gpio_irq_enable_replays(gpio[m.i])
       THEN /\ m' = [m EXCEPT !.op = "gpio_en_clr", !.disp = @ + 1,
                                !.done = KeepDone(@ \cup {m.i})]
            /\ obs' = KeepObs([NoObs EXCEPT !.fac = "pin", !.slot = m.i,
                                    !.call = gpio[m.i].irq])
            /\ hist' = KeepHist([hist EXCEPT !.pin[m.i].credit = @ - 1])
            /\ UNCHANGED coal
       ELSE /\ m' = AfterPinUnmask
            /\ obs' = KeepObs(UnmaskObs("pin"))
            /\ coal' = KeepCoal([coal EXCEPT !.pin[m.i] = 0])
            /\ UNCHANGED hist
    /\ UNCHANGED <<fac, lptim, tmr, gpio, isr, cb, mret>>
    /\ UNCHANGED <<supVars, wk, app, nvm>>

\* hal_gpio_irq_enable, iteration m.i: pending = false after the callback.
GpioIrqEnableClear ==
    /\ m.op = "gpio_en_clr"
    /\ gpio' = [gpio EXCEPT ![m.i] = hal_gpio_irq_enable_clear(@)]
    /\ m' = AfterPinUnmask
    /\ obs' = KeepObs(UnmaskObs("pin"))
    /\ coal' = KeepCoal([coal EXCEPT !.pin[m.i] = 0])
    /\ UNCHANGED <<fac, hist, lptim, tmr, isr, cb, mret>>
    /\ UNCHANGED <<supVars, wk, app, nvm>>

\* An edge on pin p: the driver thread enters gpio_irq_callback and reads
\* gpio[index].blocked.
GpioEdge(p) ==
    /\ fac \in PinRuns
    /\ isr[p] /\ cb[p] = "idle"
    /\ cb' = [cb EXCEPT ![p] = IF gpio_irq_callback_blocked(gpio[p])
                               THEN "pend" ELSE "call"]
    /\ obs' = KeepObs(NoObs)
    /\ hist' = KeepHist([hist EXCEPT !.pin[p].credit = Bump(@)])
    /\ UNCHANGED <<fac, lptim, tmr, gpio, isr, m, coal, mret>>
    /\ UNCHANGED <<supVars, wk, app, nvm>>

\* gpio_irq_callback, masked path: pending = true; return.
GpioCallbackPend(p) ==
    /\ cb[p] = "pend"
    /\ gpio' = [gpio EXCEPT ![p] = gpio_irq_callback_set_pending(@)]
    /\ cb' = [cb EXCEPT ![p] = "idle"]
    /\ coal' = KeepCoal([coal EXCEPT !.pin[p] = Bump(@)])
    /\ obs' = KeepObs(NotifyObs("pin", p, SlotView(TRUE, gpio[p].pending, gpio[p].irq), NULL))
    /\ UNCHANGED <<fac, hist, lptim, tmr, isr, m, mret>>
    /\ UNCHANGED <<supVars, wk, app, nvm>>

\* gpio_irq_callback, unmasked path: the callback, when one is attached.
GpioCallbackCall(p) ==
    /\ cb[p] = "call"
    /\ cb' = [cb EXCEPT ![p] = "idle"]
    /\ obs' = KeepObs(NotifyObs("pin", p, SlotView(FALSE, gpio[p].pending, gpio[p].irq),
                        gpio_irq_callback_call(gpio[p])))
    /\ hist' = KeepHist([hist EXCEPT !.pin[p].credit =
                            IF gpio_irq_callback_call(gpio[p]) # NULL
                            THEN @ - 1 ELSE @])
    /\ UNCHANGED <<fac, lptim, tmr, gpio, isr, m, coal, mret>>
    /\ UNCHANGED <<supVars, wk, app, nvm>>

\* hal_gpio_clear_pending_irq( pin ): one iteration of its loop; the last
\* one returns.
hal_gpio_clear_pending_irq_iter(s) == [s EXCEPT !.pending = FALSE]

GpioClearPendingIrq(pin) ==
    /\ fac = "pinclear"
    /\ \/ m.op = "idle"
       \/ m.op = "gpio_clr" /\ m.pin = pin
    /\ gpio' = [gpio EXCEPT ![m.i] = hal_gpio_clear_pending_irq_iter(@)]
    /\ IF m.i + 1 < P_NUM
       THEN /\ m' = [MainIdle EXCEPT !.op = "gpio_clr", !.i = m.i + 1,
                                     !.pin = pin]
            /\ obs' = NoObs
       ELSE /\ m' = MainIdle
            /\ obs' = [NoObs EXCEPT !.ret = "clear_pending", !.fac = "pin",
                                    !.slot = pin]
    /\ UNCHANGED <<fac, hist, lptim, tmr, isr, cb, coal, mret>>
    /\ UNCHANGED <<supVars, wk, app, nvm>>

PinNext ==
    \/ \E p \in Pins, mode \in IrqModes,
          irq \in Handlers \cup {NULL, IrqNoCallback} :
          GpioInitIn(p, mode, irq)
    \/ \E p \in Pins : GpioInitOut(p)
    \/ \E p \in Pins, irq \in Handlers : GpioIrqAttach(p, irq)
    \/ \E p \in Pins : GpioIrqDetach(p)
    \/ GpioIrqDisable
    \/ GpioIrqEnableUnblock
    \/ GpioIrqEnableTest
    \/ GpioIrqEnableClear
    \/ \E p \in Pins : GpioEdge(p)
    \/ \E p \in Pins : GpioCallbackPend(p)
    \/ \E p \in Pins : GpioCallbackCall(p)

ClearInit ==
    SupState0 /\ GateIdle("pinclear") /\ wk = WakeZero /\ app = AppZero /\ nvm = NvmZero

ClearNext == PinNext \/ \E pin \in Pins : GpioClearPendingIrq(pin)

ClearSpec == ClearInit /\ [][ClearNext]_vars

GateInit ==
    /\ SupState0
    /\ \E f \in {"timer", "pin"} : GateIdle(f)
    /\ wk = WakeZero /\ app = AppZero /\ nvm = NvmZero

GateNext == TimerNext \/ PinNext

GateSpec == GateInit /\ [][GateNext]_vars

\* The slots from initialisation up to the first call of
\* hal_lp_timer_irq_disable/enable or hal_gpio_irq_disable/enable: every
\* other operation of the two facilities. (gpio_irq_callback's masked path
\* is entered only from blocked = true, which only hal_gpio_irq_disable
\* writes.)
BootNext ==
    \/ \E id \in Timers, ms \in RunDurations, h \in Handlers :
          TimerStartAssign(id, ms, h)
    \/ TimerStartArm
    \/ \E id \in Timers : TimerStopClear(id)
    \/ TimerStopDisarm
    \/ TimerTick
    \/ \E id \in Timers : TimerExpire(id)
    \/ \E id \in Timers : TimerSignal(id)
    \/ \E p \in Pins, mode \in IrqModes,
          irq \in Handlers \cup {NULL, IrqNoCallback} :
          GpioInitIn(p, mode, irq)
    \/ \E p \in Pins : GpioInitOut(p)
    \/ \E p \in Pins, irq \in Handlers : GpioIrqAttach(p, irq)
    \/ \E p \in Pins : GpioIrqDetach(p)
    \/ \E p \in Pins : GpioEdge(p)
    \/ \E p \in Pins : GpioCallbackCall(p)

BootSpec == GateInit /\ [][BootNext]_vars

\* The slots of a worker that has passed hal_mcu_init and runs its main
\* loop: any HAL call may fail, and the worker then goes through
\* hal_mcu_reset while signals and edges keep arriving.
DownInit ==
    /\ sup_pc = "wait" /\ cpid = 1 /\ wstatus = 0 /\ forks = 1 /\ reaped = <<>>
    /\ worker = [FreshWorker EXCEPT !.pc = "run", !.step = 0]
    /\ \E f \in {"timerdown", "pindown"} : GateIdle(f)
    /\ wk = WakeZero /\ app = AppZero /\ nvm = NvmZero

DownNext ==
    \/ \E id \in Timers, ms \in RunDurations : TimerStartAssign(id, ms, "h1")
    \/ TimerStartArm
    \/ \E id \in Timers : TimerStopClear(id)
    \/ TimerStopDisarm
    \/ TimerSettimeFails
    \/ \E id \in Timers : TimerIrqDisable(id)
    \/ \E id \in Timers : TimerIrqEnableUnblock(id)
    \/ TimerIrqEnableTest
    \/ TimerIrqEnableClear
    \/ TimerTick
    \/ \E id \in Timers : TimerExpire(id)
    \/ \E id \in Timers : TimerSignal(id)
    \/ \E p \in Pins : GpioInitIn(p, "RISING", "h1")
    \/ \E p \in Pins : GpioIrqDetach(p)
    \/ GpioIrqDisable
    \/ GpioIrqEnableUnblock
    \/ GpioIrqEnableTest
    \/ GpioIrqEnableClear
    \/ \E p \in Pins : GpioEdge(p)
    \/ \E p \in Pins : GpioCallbackPend(p)
    \/ \E p \in Pins : GpioCallbackCall(p)
    \/ WorkerTeardownCall
    \/ WorkerResetExit

DownSpec == DownInit /\ [][DownNext]_vars

\* The same slots, in runs that record starts, stops and configurations.
LifeInit ==
    /\ SupState0
    /\ \E f \in {"life", "pincfg"} : GateIdle(f)
    /\ wk = WakeZero /\ app = AppZero /\ nvm = NvmZero

LifeSpec == LifeInit /\ [][GateNext]_vars

\* The timer slots, in runs that record the notifications since each start.
ReplayInit ==
    /\ SupState0
    /\ \E f \in {"replay", "pinreplay"} : GateIdle(f)
    /\ wk = WakeZero /\ app = AppZero /\ nvm = NvmZero

ReplaySpec == ReplayInit /\ [][GateNext]_vars

\* The timer slots, in runs that record deadlines.
ClockInit == SupState0 /\ GateIdle("clock") /\ wk = WakeZero /\ app = AppZero /\ nvm = NvmZero

ClockSpec == ClockInit /\ [][TimerNext]_vars

\* The timer slots, in runs that record the order of two countdowns.
RaceInit == SupState0 /\ GateIdle("race") /\ wk = WakeZero /\ app = AppZero /\ nvm = NvmZero

RaceSpec == RaceInit /\ [][TimerNext]_vars

-----------------------------------------------------------------------------
(* WakeGate: hal_mcu_set_sleep_for_ms, sleep_handler, hal_mcu_wakeup       *)
(*                                                                         *)
(* The main thread runs the call statement by statement; the wake-up       *)
(* signal and the handlers of the other facilities run between any two of  *)
(* its statements.                                                         *)

WATCHDOG_RELOAD_PERIOD_MS == 20000

MIN_first(a, b) == a

MIN(a, b) == IF a < b THEN a ELSE b

\* milliseconds smtc_modem_run_engine may return
SleepTimes == {0, 1, 1500, 30000}

\* hal_mcu_wakeup: sleeping = false
hal_mcu_wakeup(w) == [w EXCEPT !.sleeping = FALSE]

\* rtc_wakeup_timer_handler: hal_mcu_wakeup( )
rtc_wakeup_timer_handler_gated(w) ==
    IF (\A id \in Timers : lptim[id].blocked) /\ (\A i \in Pins : gpio[i].blocked)
    THEN w
    ELSE hal_mcu_wakeup(w)

rtc_wakeup_timer_handler(w) == hal_mcu_wakeup(w)

\* sleep_handler: while( sleeping ) is left when the flag reads false
sleep_handler_done_when_disarmed(w) == ~w.sleeping \/ ~w.rtc.armed

sleep_handler_done(w) == ~w.sleeping

\* hal_rtc_wakeup_timer_set_ms( milliseconds ): timer_settime with
\* it_value = milliseconds
hal_rtc_wakeup_timer_set_ms(t, ms) == timer_settime(t, ItValue(ms))

\* hal_rtc_wakeup_timer_stop(): timer_settime with it_value = ZERO
hal_rtc_wakeup_timer_stop_skipped(t) == t

hal_rtc_wakeup_timer_stop(t) == timer_settime(t, ZERO)

\* main loop: sleep_time_ms = smtc_modem_run_engine( );
RunEngine(t) ==
    /\ wk.pc = "idle" /\ m.op = "idle"
    /\ wk.parks < MaxParks
    /\ wk' = [wk EXCEPT !.pc = "flag", !.tick = t]
    /\ UNCHANGED <<supVars, gateVars, app, nvm>>

\* main loop: smtc_modem_is_irq_flag_pending( ) returned true: the loop goes
\* round without a park.
IrqFlagPending ==
    /\ wk.pc = "flag"
    /\ wk' = [wk EXCEPT !.pc = "idle", !.flag = TRUE]
    /\ UNCHANGED <<supVars, gateVars, app, nvm>>

\* main loop: smtc_modem_is_irq_flag_pending( ) returned false:
\* hal_mcu_set_sleep_for_ms( MIN( sleep_time_ms, WATCHDOG ) );
\* the call returns at once when milliseconds <= 0.
SleepCall ==
    /\ wk.pc = "flag"
    /\ LET ms == MIN(wk.tick, WATCHDOG_RELOAD_PERIOD_MS) IN
         wk' = IF ms <= 0
               THEN [wk EXCEPT !.pc = "idle", !.flag = FALSE, !.ms = ms,
                               !.parks = @ + 1]
               ELSE [wk EXCEPT !.pc = "set", !.flag = FALSE, !.ms = ms]
    /\ UNCHANGED <<supVars, gateVars, app, nvm>>

\* hal_rtc_wakeup_timer_set_ms( milliseconds )
SleepArm ==
    /\ wk.pc = "set"
    /\ wk' = [wk EXCEPT !.pc = "park",
                        !.rtc = hal_rtc_wakeup_timer_set_ms(@, wk.ms),
                        !.hit = FALSE]
    /\ UNCHANGED <<supVars, gateVars, app, nvm>>

\* sleep_handler: sleeping = true
SleepPark ==
    /\ wk.pc = "park"
    /\ wk' = [wk EXCEPT !.pc = "poll", !.sleeping = TRUE, !.woken = FALSE]
    /\ UNCHANGED <<supVars, gateVars, app, nvm>>

\* sleep_handler: while( sleeping ) hal_mcu_wait_us( 500 );
SleepPoll ==
    /\ wk.pc = "poll"
    /\ wk' = IF sleep_handler_done(wk) THEN [wk EXCEPT !.pc = "stop"] ELSE wk
    /\ UNCHANGED <<supVars, gateVars, app, nvm>>

\* hal_rtc_wakeup_timer_stop(), and the call returns
SleepStop ==
    /\ wk.pc = "stop"
    /\ wk' = [wk EXCEPT !.pc = "idle", !.rtc = hal_rtc_wakeup_timer_stop(@),
                        !.woken = FALSE, !.parks = @ + 1]
    /\ UNCHANGED <<supVars, gateVars, app, nvm>>

\* Time passes up to the deadline of the wake-up countdown.
RtcTick ==
    /\ wk.rtc.armed /\ wk.rtc.left > 0 /\ ~wk.rtc.sig
    /\ wk' = [wk EXCEPT !.rtc.left = 0]
    /\ UNCHANGED <<supVars, gateVars, app, nvm>>

\* The wake-up countdown reaches zero: the OS queues SIGRTMIN.
RtcExpire ==
    /\ wk.rtc.armed /\ wk.rtc.left = 0
    /\ wk' = [wk EXCEPT !.rtc = [armed |-> FALSE, left |-> 0, sig |-> TRUE]]
    /\ UNCHANGED <<supVars, gateVars, app, nvm>>

\* What a run of hal_mcu_wakeup leaves on record.
Woken(w) ==
    [w EXCEPT !.woken = @ \/ w.pc = "poll",
              !.hit = @ \/ w.pc \in {"park", "poll"}]

\* SIGRTMIN is delivered: rtc_wakeup_timer_handler calls hal_mcu_wakeup.
RtcSignal ==
    /\ wk.rtc.sig
    /\ wk' = Woken([rtc_wakeup_timer_handler(wk) EXCEPT !.rtc.sig = FALSE])
    /\ UNCHANGED <<supVars, gateVars, app, nvm>>

\* smtc_modem_hal_user_lbm_irq, called by the engine from a timer or pin
\* handler: hal_mcu_wakeup.
UserLbmIrq ==
    /\ wk.pc # "idle" \/ wk.sleeping
    /\ wk' = Woken(hal_mcu_wakeup(wk))
    /\ UNCHANGED <<supVars, gateVars, app, nvm>>

WakeNext ==
    \/ \E t \in SleepTimes : RunEngine(t)
    \/ IrqFlagPending
    \/ SleepCall
    \/ SleepArm
    \/ SleepPark
    \/ SleepPoll
    \/ SleepStop
    \/ RtcTick
    \/ RtcExpire
    \/ RtcSignal
    \/ UserLbmIrq

WakeInit == SupState0 /\ GateIdle("timer") /\ wk = WakeZero /\ app = AppZero /\ nvm = NvmZero

WakeSpec == WakeInit /\ [][WakeNext]_vars

\* The main thread keeps running, the clock keeps going and a queued signal
\* is delivered; nothing makes another handler call hal_mcu_wakeup.
WakeFairSpec ==
    /\ WakeSpec
    /\ WF_vars(SleepArm) /\ WF_vars(SleepPark) /\ WF_vars(SleepPoll)
    /\ WF_vars(SleepStop)
    /\ WF_vars(RtcTick) /\ WF_vars(RtcExpire) /\ WF_vars(RtcSignal)

-----------------------------------------------------------------------------
(* Application parameters: main() argument parsing, compute_payload_size   *)

PACKET_SIZE_MIN_VARIABLE == 1

DigitChar == <<"0", "1", "2", "3", "4", "5", "6", "7", "8", "9">>

isdigit(c) == \E d \in 1..10 : DigitChar[d] = c

DigitVal(c) == (CHOOSE d \in 1..10 : DigitChar[d] = c) - 1

RECURSIVE atoi_digits(_, _)
atoi_digits(t, acc) ==
    IF t = <<>> \/ ~isdigit(Head(t))
    THEN acc
    ELSE atoi_digits(Tail(t), acc * 10 + DigitVal(Head(t)))

\* atoi: an optional sign, then the leading decimal digits; 0 when there
\* are none.
atoi(t) ==
    IF t = <<>> THEN 0
    ELSE IF Head(t) = "-" THEN 0 - atoi_digits(Tail(t), 0)
    ELSE IF Head(t) = "+" THEN atoi_digits(Tail(t), 0)
    ELSE atoi_digits(t, 0)

\* The decimal text of an integer, as a shell passes it.
RECURSIVE Decimal(_)
Decimal(n) ==
    IF n < 0 THEN <<"-">> \o Decimal(0 - n)
    ELSE IF n < 10 THEN <<DigitChar[n + 1]>>
    ELSE Decimal(n \div 10) \o <<DigitChar[(n % 10) + 1]>>

INT_MAX == 2147483647

VarText == <<"v", "a", "r">>
VariableText == <<"v", "a", "r", "i", "a", "b", "l", "e">>
FixedText == <<"f", "i", "x", "e", "d">>

PeriodArgs ==
    {Decimal(n) : n \in {0 - INT_MAX, -1, 0, 1, 60, INT_MAX}} \cup {VarText}

SizeArgs ==
    {Decimal(n) : n \in (-1..224) \cup {0 - INT_MAX, 256, 478, INT_MAX}}
        \cup {VarText}

ModeArgs == {VarText, VariableText, FixedText, Decimal(1), Decimal(0)}

\* main: int p = atoi( argv[1] ); if( p < 1 ) p = 1;
\* g_uplink_period_s = ( uint32_t ) p;  p is positive, the cast keeps it.
period_arg(text) ==
    LET p == atoi(text) IN
    IF p < 1 THEN 1 ELSE p

\* main: int s = atoi( argv[2] ); if( s < 1 ) s = 1; if( s > 222 ) s = 222;
\* g_packet_size = ( uint8_t ) s;
packet_size_arg_cast_only(text) ==
    LET s == atoi(text) IN
    (IF s < 1 THEN 1 ELSE s) % 256

packet_size_arg(text) ==
    LET s0 == atoi(text)
        s1 == IF s0 < 1 THEN 1 ELSE s0
        s2 == IF s1 > 222 THEN 222 ELSE s1
    IN  s2 % 256

\* main: strcmp( argv[3], "var" ) == 0 || ... "variable" ... || ... "1"
packet_mode_arg(text) ==
    ~(text = VarText \/ text = VariableText \/ text = Decimal(1))

ParseArgs(argv) ==
    /\ app.pc = "start"
    /\ LET argc == Len(argv) + 1 IN
         app' = [app EXCEPT
                   !.pc = "parsed",
                   !.argv = argv,
                   !.g_uplink_period_s =
                       IF argc >= 2 THEN period_arg(argv[1]) ELSE @,
                   !.g_packet_size =
                       IF argc >= 3 THEN packet_size_arg(argv[2]) ELSE @,
                   !.g_packet_size_fixed =
                       IF argc >= 4 THEN packet_mode_arg(argv[3]) ELSE @]
    /\ UNCHANGED <<supVars, gateVars, wk, nvm>>

\* values rand() may return
RandValues == {0, 1, 2, 11, 12, 220, 221, 222, 255, 256, INT_MAX}

compute_payload_size_modulo_only(a, r) ==
    IF a.g_packet_size_fixed
    THEN a.g_packet_size % 256
    ELSE (r % (a.g_packet_size + 1)) % 256

compute_payload_size(a, r) ==
    IF a.g_packet_size_fixed
    THEN a.g_packet_size % 256
    ELSE LET max_s == a.g_packet_size
             min_s == IF PACKET_SIZE_MIN_VARIABLE > max_s
                      THEN max_s ELSE PACKET_SIZE_MIN_VARIABLE
         IN  (min_s + (r % (max_s - min_s + 1))) % 256

\* One transmission: the payload size is computed with the next rand().
ComputePayloadSize(r) ==
    /\ app.pc \in {"parsed", "sized"}
    /\ app' = [app EXCEPT !.pc = "sized", !.size = compute_payload_size(app, r)]
    /\ UNCHANGED <<supVars, gateVars, wk, nvm>>

ArgVectors ==
    {<<>>} \cup {<<p>> : p \in PeriodArgs}
           \cup {<<p, s>> : p \in PeriodArgs, s \in SizeArgs}
           \cup {<<p, s, f>> : p \in PeriodArgs, s \in SizeArgs, f \in ModeArgs}

AppNext ==
    \/ \E argv \in ArgVectors : ParseArgs(argv)
    \/ \E r \in RandValues : ComputePayloadSize(r)

AppInit == SupState0 /\ GateIdle("timer") /\ wk = WakeZero /\ app = AppZero /\ nvm = NvmZero

AppSpec == AppInit /\ [][AppNext]_vars

-----------------------------------------------------------------------------
(* modem_event_callback and send_uplink_counter_on_port                    *)

\* event types the engine may report (the other types are handled like
\* TXDONE: they request no uplink and start no alarm)
EventTypes == {"RESET", "JOINED", "ALARM", "TXDONE"}

\* command lines of the runs that follow the events
EventArgVectors ==
    {<<>>, <<Decimal(0)>>, <<Decimal(1), Decimal(12), VarText>>}

\* modem_event_callback: the cases that call send_uplink_counter_on_port
\* and smtc_modem_alarm_start_timer
modem_event_sends_on_alarm_only(e) == e = "ALARM"

modem_event_sends(e) == e \in {"ALARM", "JOINED"}

\* The engine, holding q events, calls modem_event_callback.
EventCallback(q) ==
    /\ app.pc \in {"parsed", "sized"}
    /\ app.ev_pc = "out"
    /\ app.uplink_counter < MaxUplinks
    /\ app' = [app EXCEPT !.ev_pc = "get", !.left = q]
    /\ UNCHANGED <<supVars, gateVars, wk, nvm>>

\* smtc_modem_get_event( &current_event, &event_pending_count ): the oldest
\* event and the number of events that remain.
GetEvent(e) ==
    /\ app.ev_pc = "get"
    /\ app' = [app EXCEPT !.ev_pc = "case", !.ev = e, !.left = @ - 1,
                          !.req = 0, !.alarm = 0]
    /\ UNCHANGED <<supVars, gateVars, wk, nvm>>

\* send_uplink_counter_on_port( 101 ): the payload size is computed, one
\* smtc_modem_request_uplink is made (its return code is only logged) and
\* uplink_counter is incremented.
SendUplink(r) ==
    /\ app.ev_pc = "case"
    /\ modem_event_sends(app.ev)
    /\ app' = [app EXCEPT !.ev_pc = "alarm",
                          !.pc = "sized",
                          !.size = compute_payload_size(app, r),
                          !.req = @ + 1,
                          !.port = 101,
                          !.uplink_counter = @ + 1]
    /\ UNCHANGED <<supVars, gateVars, wk, nvm>>

\* smtc_modem_alarm_start_timer( g_uplink_period_s )
AlarmStart ==
    /\ app.ev_pc = "alarm"
    /\ app' = [app EXCEPT !.ev_pc = "end", !.alarm = app.g_uplink_period_s]
    /\ UNCHANGED <<supVars, gateVars, wk, nvm>>

\* The cases that request no uplink.
OtherEvent ==
    /\ app.ev_pc = "case"
    /\ ~modem_event_sends(app.ev)
    /\ app' = [app EXCEPT !.ev_pc = "end"]
    /\ UNCHANGED <<supVars, gateVars, wk, nvm>>

\* while( event_pending_count > 0 )
EventDone ==
    /\ app.ev_pc = "end"
    /\ app' = [app EXCEPT !.ev_pc = IF app.left > 0 THEN "get" ELSE "out",
                          !.handled = IF app.ev \in {"ALARM", "JOINED"}
                                      THEN @ + 1 ELSE @]
    /\ UNCHANGED <<supVars, gateVars, wk, nvm>>

EventNext ==
    \/ \E argv \in EventArgVectors : ParseArgs(argv)
    \/ \E q \in 1..2 : EventCallback(q)
    \/ \E e \in EventTypes : GetEvent(e)
    \/ \E r \in {0, 1, 12} : SendUplink(r)
    \/ AlarmStart
    \/ OtherEvent
    \/ EventDone

EventSpec == AppInit /\ [][EventNext]_vars

\* The callback runs to its end once the engine has called it.
EventFairSpec ==
    /\ EventSpec
    /\ WF_vars(\E e \in EventTypes : GetEvent(e))
    /\ WF_vars(\E r \in {0, 1, 12} : SendUplink(r))
    /\ WF_vars(AlarmStart) /\ WF_vars(OtherEvent) /\ WF_vars(EventDone)

-----------------------------------------------------------------------------
(* Context storage: smtc_modem_hal.c, smtc_hal_nvm.c                       *)
(*                                                                         *)
(* Every call opens the file, seeks, reads or writes, and closes; each of  *)
(* the four calls is checked and a failure is a panic, after which the     *)
(* next worker finds the file as the failed call left it.                  *)

ADDR_STACK_LORAWAN_CONTEXT_OFFSET == 0

ADDR_STACK_MODEM_KEY_CONTEXT_OFFSET == 50

ADDR_STACK_MODEM_CONTEXT_OFFSET == 75

ADDR_STACK_SECURE_ELEMENT_CONTEXT_OFFSET == 100

\* the switch of smtc_modem_hal_context_store: the address written (the
\* cases of CtxUnused break without a call)
context_store_addr(type, offset) ==
    CASE type = "MODEM" -> ADDR_STACK_MODEM_CONTEXT_OFFSET
      [] type = "KEY_MODEM" -> ADDR_STACK_MODEM_KEY_CONTEXT_OFFSET
      [] type = "LORAWAN_STACK" -> ADDR_STACK_LORAWAN_CONTEXT_OFFSET + offset
      [] type = "SECURE_ELEMENT" -> ADDR_STACK_SECURE_ELEMENT_CONTEXT_OFFSET

\* the switch of smtc_modem_hal_context_restore: the address read
context_restore_addr_no_offset(type, offset) ==
    CASE type = "MODEM" -> ADDR_STACK_MODEM_CONTEXT_OFFSET
      [] type = "KEY_MODEM" -> ADDR_STACK_MODEM_KEY_CONTEXT_OFFSET
      [] type = "LORAWAN_STACK" -> ADDR_STACK_LORAWAN_CONTEXT_OFFSET
      [] type = "SECURE_ELEMENT" -> ADDR_STACK_SECURE_ELEMENT_CONTEXT_OFFSET

context_restore_addr(type, offset) ==
    CASE type = "MODEM" -> ADDR_STACK_MODEM_CONTEXT_OFFSET
      [] type = "KEY_MODEM" -> ADDR_STACK_MODEM_KEY_CONTEXT_OFFSET
      [] type = "LORAWAN_STACK" -> ADDR_STACK_LORAWAN_CONTEXT_OFFSET + offset
      [] type = "SECURE_ELEMENT" -> ADDR_STACK_SECURE_ELEMENT_CONTEXT_OFFSET

\* lseek( f, addr, SEEK_SET ); write( f, buffer, size ): the bytes replace
\* those at addr .. addr + size - 1; the file grows as needed, and a gap
\* between its old end and addr reads as zeros. The file is opened without
\* O_TRUNC, so the other bytes stay.
pwrite(file, addr, buf) ==
    IF Len(buf) = 0 THEN file
    ELSE LET n == IF Len(file) > addr + Len(buf) THEN Len(file)
                  ELSE addr + Len(buf) IN
         [k \in 1..n |->
            IF k > addr /\ k <= addr + Len(buf) THEN buf[k - addr]
            ELSE IF k <= Len(file) THEN file[k]
            ELSE 0]

\* lseek( f, addr, SEEK_SET ); read( f, buffer, size ): the bytes of the file
\* from addr on; past the end of the file read stops, and the rest of the
\* caller's buffer keeps what it held.
pread(file, addr, size, buf0) ==
    [k \in 1..size |-> IF addr + k <= Len(file) THEN file[addr + k] ELSE buf0[k]]

\* hal_nvm_write_buffer: fail names the call that returns an error
\* ("none": the four calls succeed).
hal_nvm_write_buffer(file, addr, buf, fail) ==
    IF fail \in {"open", "lseek", "write"} THEN file ELSE pwrite(file, addr, buf)

\* hal_nvm_read_buffer
hal_nvm_read_buffer(file, addr, size, buf0, fail) ==
    IF fail \in {"open", "lseek", "read"} THEN buf0 ELSE pread(file, addr, size, buf0)

\* What the caller's buffer holds before a restore: bytes of its own.
Untouched(size) == [k \in 1..size |-> -1]

\* The bytes the engine stores with its k-th store: uint8_t values.
Buffer(k, size) == [i \in 1..size |-> (16 * k + i) % 256]

\* sizes the engine passes
CtxSizes == {20, 60}

\* offsets the engine passes: "Offset is only used for fuota and store and
\* forward purpose and for multistack features", so a non-zero one comes
\* with LORAWAN_STACK only
CtxOffsets(type) == IF type = "LORAWAN_STACK" THEN {0, 30} ELSE {0}

\* smtc_modem_hal_context_store( type, offset, buffer, size )
ContextStore(type, offset, size, fail) ==
    /\ nvm.stores < MaxStores
    /\ LET buf == Buffer(nvm.stores + 1, size)
           addr == context_store_addr(type, offset)
           rec == [type |-> type, offset |-> offset, size |-> size, buf |-> buf]
           ok == fail = "none" IN
         /\ (type \in CtxUnused) => ok
         /\ nvm' = [nvm EXCEPT
               !.file = IF type \in CtxUnused THEN @
                        ELSE hal_nvm_write_buffer(@, addr, buf, fail),
               !.op = IF ok THEN "store" ELSE "failed",
               !.last = IF ok THEN rec ELSE NoStore,
               !.ctx = IF type \notin CtxTypes \/ fail = "write" THEN @
                       ELSE [@ EXCEPT ![type] = IF ok THEN rec ELSE NoStore],
               !.req = NoStore,
               !.out = <<>>,
               !.restarted = ~ok,
               !.stores = @ + 1]
    /\ UNCHANGED <<supVars, gateVars, wk, app>>

\* smtc_modem_hal_context_restore( type, offset, buffer, size ). A restore
\* changes nothing of the file, so the model follows one restore at a time:
\* the next step is a store or the end of the worker.
ContextRestore(type, offset, size, fail) ==
    /\ nvm.op # "restore"
    /\ LET addr == context_restore_addr(type, offset)
           ok == fail = "none" IN
         /\ (type \in CtxUnused) => ok
         /\ nvm' = [nvm EXCEPT
               !.op = IF ok THEN "restore" ELSE "failed",
               !.req = IF ok
                       THEN [type |-> type, offset |-> offset, size |-> size,
                             buf |-> <<>>]
                       ELSE NoStore,
               !.out = IF ~ok THEN <<>>
                       ELSE IF type \in CtxUnused THEN Untouched(size)
                       ELSE hal_nvm_read_buffer(nvm.file, addr, size,
                                                Untouched(size), fail),
               !.restarted = @ \/ ~ok]
    /\ UNCHANGED <<supVars, gateVars, wk, app>>

\* The worker ends for another reason and the supervisor starts the next
\* one: the file stays, the buffers of the worker are gone.
ContextWorkerRestart ==
    /\ nvm' = [nvm EXCEPT !.op = "restart", !.req = NoStore, !.out = <<>>,
                          !.restarted = TRUE]
    /\ UNCHANGED <<supVars, gateVars, wk, app>>

\* Of the calls that fail before anything is written or read, the model
\* draws the last one (write, read): open and lseek fail to the same effect.
NvmNext ==
    \/ \E type \in CtxTypes \cup {"FUOTA"} :
          \E offset \in CtxOffsets(type), size \in CtxSizes,
             fail \in {"none", "write", "close"} :
             ContextStore(type, offset, size, fail)
    \/ \E type \in CtxTypes \cup {"FUOTA"} :
          \E offset \in CtxOffsets(type), size \in CtxSizes,
             fail \in {"none", "read"} :
             ContextRestore(type, offset, size, fail)
    \/ ContextWorkerRestart

NvmSpec == AppInit /\ [][NvmNext]_vars

-----------------------------------------------------------------------------
(* Supervisor and restart-path properties                                  *)

Last(q) == q[Len(q)]

\* A reaped termination that is a normal exit with code 3.
IsExit3(r) == ~r.killed /\ r.status = 3 * 256

\* C1: after each worker termination the supervisor goes on to fork again
\* if and only if the worker exited normally with code 3; after any other
\* termination it forks no further worker and ends.
C1_RestartIffExit3 ==
    /\ (sup_pc = "fork" /\ reaped # <<>>) => IsExit3(Last(reaped))
    /\ (sup_pc = "done" /\ reaped # <<>>) => ~IsExit3(Last(reaped))
    /\ \A i \in 1..(Len(reaped) - 1) : IsExit3(reaped[i])
    /\ sup_pc = "done" => (worker.pc = "none" /\ forks = Len(reaped))
    /\ (worker.pc # "none") => (sup_pc = "wait" /\ forks = Len(reaped) + 1)

\* C1 witness: two restarts after exit code 3, then a death by signal ends
\* the supervisor.
C1_Witness ==
    /\ sup_pc = "done"
    /\ Len(reaped) = 3
    /\ IsExit3(reaped[1]) /\ IsExit3(reaped[2])
    /\ reaped[3].killed

\* C2: once k exits with code 3 have been followed by one termination that
\* is not an exit with code 3, exactly k+1 workers have been forked, no
\* worker exists and the supervisor only ends.
C2_ForksAreRestartsPlusOne ==
    (reaped # <<>> /\ ~IsExit3(Last(reaped))) =>
        /\ \A i \in 1..(Len(reaped) - 1) : IsExit3(reaped[i])
        /\ forks = Len(reaped)
        /\ worker.pc = "none"
        /\ sup_pc \in {"cond", "done"}

\* C2 witness: exit code 3 three times, then exit code 0: four forks, done.
C2_Witness ==
    /\ sup_pc = "done"
    /\ Len(reaped) = 4
    /\ \A i \in 1..3 : IsExit3(reaped[i])
    /\ reaped[4].status = 0 /\ ~reaped[4].killed
    /\ forks = 4

\* C3: a worker whose setup or transport call has failed makes no further
\* HAL call (no retry): it is in the teardown, entered once, and unless a
\* signal kills it first it exits with code 3; the supervisor that reaps
\* such an exit does not end but goes on to fork a fresh worker.
C3_FailureMeansRestart ==
    /\ (worker.failed # "none") =>
          /\ worker.pc \in {"reset", "zombie"}
          /\ worker.resets = 1
          /\ (worker.pc = "zombie" /\ ~worker.killed) =>
                 worker.status = 3 * 256
    /\ (worker.pc \in {"reset"}) => worker.failed # "none"
    /\ (reaped # <<>> /\ Last(reaped).panic /\ ~Last(reaped).killed) =>
          /\ IsExit3(Last(reaped))
          /\ sup_pc \in {"cond", "fork", "wait"}

\* C3 witness: a call of the first worker failed, the worker exited with code
\* 3 through the teardown, and the supervisor has forked the next worker.
C3_Witness ==
    /\ Len(reaped) = 1
    /\ reaped[1].panic /\ ~reaped[1].killed
    /\ forks = 2
    /\ worker.pc = "init"

\* C4: the teardown attempts its release steps in program order whatever
\* fails, never re-enters the panic path, ends with exit code 3, and a
\* worker in the teardown always gets out of it.
C4_TeardownOrder ==
    /\ (worker.pc = "reset") =>
          /\ worker.resets = 1
          /\ worker.step \in 1..(Len(TeardownSteps) + 1)
          /\ worker.log = SubSeq(TeardownSteps, 1, worker.step - 1)
    /\ (worker.pc = "zombie" /\ worker.resets > 0 /\ ~worker.killed) =>
          /\ worker.resets = 1
          /\ worker.log = TeardownSteps
          /\ worker.status = 3 * 256

C4_TeardownTerminates ==
    /\ []C4_TeardownOrder
    /\ (worker.pc = "reset") ~> (worker.pc = "zombie")

\* C4 witness: every release call that can fail failed, and the worker
\* still exited with code 3 after the whole teardown.
C4_Witness ==
    /\ worker.pc = "zombie"
    /\ worker.resets = 1 /\ ~worker.killed
    /\ worker.traces = Len(TeardownSteps) - 1
    /\ worker.log = TeardownSteps
    /\ worker.status = 3 * 256


-----------------------------------------------------------------------------
(* Event-gate properties                                                   *)

\* The pending flag of slot s of facility f, now.
SlotPending(f, s) == IF f = "timer" THEN lptim[s].pending ELSE gpio[s].pending

\* Slot s of facility f as the gate sees it, now.
SlotNow(f, s) == IF f = "timer" THEN TimerView(lptim[s]) ELSE GpioView(gpio[s])

\* C5: coalescing. When the unmask of a slot that was masked, has a handler
\* attached and took n >= 1 notifications while masked completes, that
\* unmask has invoked the handler exactly once and pending is false.
C5_CoalescedReplayOnce ==
    (obs.ret = "unmask" /\ obs.s0.blocked /\ obs.s0.h # NULL /\ obs.n >= 1) =>
        /\ obs.disp = 1
        /\ ~SlotPending(obs.fac, obs.slot)

\* C5 witness: a timer slot took two expiry notifications while masked and
\* its unmask invoked the handler once.
C5_Witness ==
    /\ obs.ret = "unmask" /\ obs.fac = "timer"
    /\ obs.s0.blocked /\ obs.s0.h # NULL
    /\ obs.n = 2
    /\ obs.disp = 1

\* C6: a notification that finds its slot unmasked invokes the attached
\* handler once, at once, and leaves pending as it was; one that finds the
\* slot masked sets pending and invokes nothing.
C6_NotifyDispatchesOrRecords ==
    (obs.ret = "notify") =>
        /\ (obs.found = "unmasked") =>
              /\ obs.call = obs.s0.h
              /\ obs.disp = (IF obs.s0.h # NULL THEN 1 ELSE 0)
              /\ SlotPending(obs.fac, obs.slot) = obs.s0.pending
        /\ (obs.found = "masked") =>
              /\ SlotPending(obs.fac, obs.slot)
              /\ obs.disp = 0
              /\ obs.call = NULL

\* C6 witness: an expiry found its timer slot unmasked, with pending clear,
\* and invoked the handler.
C6_Witness ==
    /\ obs.ret = "notify" /\ obs.fac = "timer"
    /\ obs.found = "unmasked"
    /\ obs.call \in Handlers
    /\ ~obs.s0.pending

\* C7 (as claimed): no step invokes the handler of a slot between the return
\* of a mask call and the next unmask call on that slot.
C7_NoDispatchWhileMasked ==
    (obs.call # NULL) => ~mret[obs.fac][obs.slot]

\* C8 (as claimed): a pin notification that recorded pending on a slot that
\* is unmasked by then is still replayed: the unmask of that slot has yet to
\* look at pending.
C8_PendingNeverLost ==
    (/\ obs.ret = "notify" /\ obs.fac = "pin" /\ obs.found = "masked"
     /\ ~gpio[obs.slot].blocked) =>
        (m.op \in {"gpio_en_test", "gpio_en_clr"} /\ m.i = obs.slot)

\* C9 (as claimed): the unmask of a slot invokes its handler at most once,
\* and on a slot that was already unmasked it invokes nothing and leaves the
\* slot as it was.
C9_UnmaskOnceAndIdempotent ==
    (obs.ret = "unmask") =>
        /\ obs.disp <= 1
        /\ (~obs.s0.blocked) =>
              /\ obs.disp = 0
              /\ SlotNow(obs.fac, obs.slot) = obs.s0

\* C10 (as claimed): a slot with no handler attached is never dispatched, by
\* a notification or by an unmask, and its unmask leaves pending false.
C10_NoHandlerNoDispatchPendingCleared ==
    /\ (obs.ret = "notify" /\ obs.s0.h = NULL) => obs.disp = 0
    /\ (obs.ret = "unmask" /\ obs.s0.h = NULL) =>
          /\ obs.disp = 0
          /\ ~SlotPending(obs.fac, obs.slot)

-----------------------------------------------------------------------------
(* Start/stop, configuration and deadline properties                       *)

\* What the run has recorded of slot s of facility f.
SlotHist(f, s) == IF f = "timer" THEN hist.timer[s] ELSE hist.pin[s]

\* C11: once hal_lp_timer_stop or hal_gpio_irq_detach has returned and the
\* slot has been started or configured again with another handler, no
\* notification and no unmask invokes the handler that was removed.
C11_OldHandlerRetired ==
    (obs.call # NULL) =>
        LET r == SlotHist(obs.fac, obs.slot) IN
        (r.life \in {"restarted", "reattached"} /\ r.old # NULL) =>
            obs.call # r.old

\* C11 witness: a pin was detached from one handler and configured with
\* another, and a later edge on it invoked the new handler.
C11_Witness ==
    /\ obs.ret = "notify" /\ obs.fac = "pin"
    /\ hist.pin[obs.slot].life = "reattached"
    /\ hist.pin[obs.slot].old \in Handlers
    /\ obs.call \in Handlers \ {hist.pin[obs.slot].old}

\* C12 (as claimed): once hal_gpio_init_in has given a pin the edge mode off
\* and a handler, an edge notification on that pin invokes no handler and
\* leaves pending false, masked or not, whatever the pin was before.
C12_OffModeNeverNotifies ==
    (obs.ret = "notify" /\ obs.fac = "pin" /\ hist.pin[obs.slot].off) =>
        /\ obs.call = NULL
        /\ ~gpio[obs.slot].pending

\* Timer b's deadline comes before timer a's, both countdowns having been
\* started on idle slots: recorded by the one that was started last.
DeadlineBefore(b, a) ==
    \/ hist.timer[b].first = "self"
    \/ hist.timer[a].first = "peer"

-----------------------------------------------------------------------------
(* Wake-gate properties                                                    *)

\* C14: sleep_handler sets the flag before it waits, the flag stays set
\* until hal_mcu_wakeup runs, and sleep_handler returns only after
\* hal_mcu_wakeup has run since the flag was set.
C14_ParkEndsOnlyByWakeup ==
    /\ (wk.pc = "poll") => (wk.sleeping <=> ~wk.woken)
    /\ (wk.pc = "stop") => (wk.woken /\ ~wk.sleeping)

\* C14 witness: the wake-up countdown expired while sleep_handler polled,
\* and sleep_handler has returned.
C14_Witness ==
    /\ wk.pc = "stop"
    /\ wk.woken /\ wk.hit
    /\ ~wk.rtc.armed /\ ~wk.rtc.sig

\* C15 (as claimed): once the wake-up countdown of a call has expired, or a
\* handler has called hal_mcu_wakeup, the call returns.
C15_SleepCallReturns ==
    (wk.pc \in {"park", "poll"} /\ wk.hit) ~> (wk.pc = "idle")

-----------------------------------------------------------------------------
(* Application parameter properties                                        *)

\* C16: after argument parsing the period is at least 1 and the packet
\* size lies in 1..222: a period below 1 becomes 1, a size below 1 becomes
\* 1, a size above 222 becomes 222, other values are taken as given; with
\* no arguments the period is 60, the size 12 and the mode fixed.
C16_ParsedParametersInRange ==
    (app.pc # "start") =>
        LET n == Len(app.argv) IN
        /\ app.g_uplink_period_s >= 1
        /\ app.g_packet_size >= 1 /\ app.g_packet_size <= 222
        /\ (n >= 1) =>
              LET p == atoi(app.argv[1]) IN
              app.g_uplink_period_s = (IF p < 1 THEN 1 ELSE p)
        /\ (n >= 2) =>
              LET s == atoi(app.argv[2]) IN
              app.g_packet_size =
                  (IF s < 1 THEN 1 ELSE IF s > 222 THEN 222 ELSE s)
        /\ (n = 0) =>
              /\ app.g_uplink_period_s = 60
              /\ app.g_packet_size = 12
              /\ app.g_packet_size_fixed

\* C16 witness: a period below 1 and a size above 222 whose low byte is
\* not 222 were given and have been parsed.
C16_Witness ==
    /\ app.pc = "parsed"
    /\ Len(app.argv) >= 2
    /\ atoi(app.argv[1]) < 1
    /\ atoi(app.argv[2]) = 256
    /\ app.g_uplink_period_s = 1
    /\ app.g_packet_size = 222

\* C17: compute_payload_size returns g_packet_size in fixed mode and a
\* value in PACKET_SIZE_MIN_VARIABLE..g_packet_size in variable mode.
C17_PayloadSizeInRange ==
    (app.pc = "sized") =>
        IF app.g_packet_size_fixed
        THEN app.size = app.g_packet_size
        ELSE /\ app.size >= PACKET_SIZE_MIN_VARIABLE
             /\ app.size <= app.g_packet_size

\* C17 witness: in variable mode with the largest packet size, rand()
\* returned a multiple of the range and the lower bound was returned.
C17_Witness ==
    /\ app.pc = "sized"
    /\ ~app.g_packet_size_fixed
    /\ app.g_packet_size = 222
    /\ app.size = PACKET_SIZE_MIN_VARIABLE

-----------------------------------------------------------------------------
(* Mask, re-arm and stop properties                                        *)

\* C18: a mask call sets blocked on the slots it targets and changes
\* nothing else: pending, the handler, the edge mode, the countdowns and
\* the slots of the other facility stay as they were.
C18_MaskChangesOnlyMasked ==
    [][/\ (obs'.ret = "mask" /\ obs'.fac = "timer") =>
            /\ lptim' = [lptim EXCEPT ![obs'.slot].blocked = TRUE]
            /\ UNCHANGED <<tmr, gpio, isr, cb, wk>>
       /\ (\/ m'.op = "gpio_dis" /\ m'.i # m.i
           \/ obs'.ret = "mask" /\ obs'.fac = "pin") =>
            /\ gpio' = [gpio EXCEPT ![m.i].blocked = TRUE]
            /\ UNCHANGED <<lptim, tmr, isr, cb, wk>>]_vars

\* C18 witness: a mask call has returned on a timer slot that has a handler
\* and a notification pending.
C18_Witness ==
    /\ obs.ret = "mask" /\ obs.fac = "timer"
    /\ lptim[obs.slot].blocked
    /\ lptim[obs.slot].pending
    /\ lptim[obs.slot].callback # NULL

C20_StoppedTimerStaysSilent ==
    /\ \A id \in Timers :
          (hist.timer[id].life = "stopped") =>
              /\ lptim[id].callback = NULL
              /\ ~tmr[id].armed
              /\ (obs.fac = "timer" /\ obs.slot = id) => (obs.call = NULL)
    /\ (obs.ret = "stop" /\ obs.found = "quiet") => ~tmr[obs.slot].sig

\* C20 witness: a timer that had a handler was stopped, no expiry is in
\* flight, and an unmask of the slot has since returned without a dispatch.
C20_Witness ==
    LET id == hist.watch IN
    /\ hist.timer[id].life = "stopped"
    /\ hist.timer[id].old # NULL
    /\ obs.ret = "unmask" /\ obs.fac = "timer" /\ obs.slot = id
    /\ obs.call = NULL
    /\ ~tmr[id].sig /\ ~lptim[id].pending

-----------------------------------------------------------------------------
(* One worker at a time                                                    *)

\* Worker processes created and not yet reaped.
LiveWorkers == forks - Len(reaped)

\* C28: at most one worker process exists; the supervisor forks only when
\* every worker it created has been reaped, and a worker ceases to exist
\* only by the supervisor's waitpid.
C28_AtMostOneWorker ==
    /\ [](/\ LiveWorkers \in {0, 1}
          /\ (sup_pc = "fork") => (LiveWorkers = 0 /\ worker.pc = "none")
          /\ (worker.pc # "none") <=> (LiveWorkers = 1))
    /\ [][(worker.pc # "none" /\ worker'.pc = "none") =>
             /\ sup_pc = "wait" /\ worker.pc = "zombie"
             /\ Len(reaped') = Len(reaped) + 1]_vars

\* C28 witness: a second worker runs after the first one was reaped.
C28_Witness ==
    /\ forks = 2 /\ Len(reaped) = 1
    /\ worker.pc = "run"
    /\ sup_pc = "wait"

-----------------------------------------------------------------------------
(* Main loop of the worker                                                 *)

\* C29: the main loop calls hal_mcu_set_sleep_for_ms only when the IRQ flag
\* test after the engine tick returned false, with the smaller of the
\* engine's sleep time and 20000 ms; when the test returns true no call is
\* made.
C29_ParkOnlyWithoutPendingIrq ==
    /\ [](wk.pc \in {"set", "park", "poll", "stop"} =>
             /\ ~wk.flag
             /\ wk.ms = (IF wk.tick < 20000 THEN wk.tick ELSE 20000))
    /\ [][(wk.pc = "flag" /\ wk'.pc # "flag") =>
             IF wk'.flag
             THEN /\ wk'.pc = "idle" /\ wk'.parks = wk.parks
                  /\ wk'.rtc = wk.rtc /\ wk'.sleeping = wk.sleeping
             ELSE /\ wk'.ms = (IF wk.tick < 20000 THEN wk.tick ELSE 20000)
                  /\ wk'.pc = "set" \/ (wk'.ms <= 0 /\ wk'.parks = wk.parks + 1)
          ]_vars

\* C29 witness: the engine asked for more than the watchdog period, the flag
\* test returned false and the park polls with the 20000 ms countdown.
C29_Witness ==
    /\ wk.pc = "poll"
    /\ wk.tick = 30000 /\ wk.ms = 20000
    /\ ~wk.flag
    /\ wk.rtc.armed /\ wk.rtc.left = 20000

-----------------------------------------------------------------------------
(* Periodic uplink                                                         *)

\* C30: handling a JOINED or an ALARM event makes exactly one uplink
\* request, on port 101, and then starts the alarm with g_uplink_period_s;
\* no other event requests an uplink or starts the alarm; so every such
\* event that arrives is answered by one request and a re-armed alarm.
C30_OneUplinkPerAlarm ==
    /\ [](/\ (app.ev_pc = "alarm") =>
                (app.req = 1 /\ app.port = 101 /\ app.alarm = 0)
          /\ (app.ev_pc = "end") =>
                IF app.ev \in {"JOINED", "ALARM"}
                THEN /\ app.req = 1 /\ app.port = 101
                     /\ app.alarm = app.g_uplink_period_s
                ELSE app.req = 0 /\ app.alarm = 0
          /\ (app.ev_pc = "out") => (app.uplink_counter = app.handled))
    /\ ((app.ev_pc = "case" /\ app.ev \in {"JOINED", "ALARM"}) ~>
           (app.ev_pc = "end" /\ app.req = 1 /\ app.port = 101
                /\ app.alarm = app.g_uplink_period_s))

\* C30 witness: two uplink-requesting events were handled before, a further
\* ALARM event has been answered by its uplink request and the alarm was
\* started again with the period given on the command line.
C30_Witness ==
    /\ app.ev_pc = "end" /\ app.ev = "ALARM"
    /\ app.handled = 2 /\ app.uplink_counter = 3
    /\ app.req = 1 /\ app.port = 101
    /\ Len(app.argv) >= 1 /\ app.alarm = 1

-----------------------------------------------------------------------------
(* Slot identity, configuration and lifecycle of the slots                 *)

\* C27: the expiry notification of timer id touches slot id only: it
\* consumes the signal of timer id, sets that slot's pending flag or invokes
\* that slot's handler, and leaves the slot's masked flag and handler, the
\* other timer slot and every pin slot as they were.
C27_ExpiryTouchesOwnSlotOnly ==
    [][(obs'.ret = "notify" /\ obs'.fac = "timer") =>
          LET id == obs'.slot IN
          /\ tmr[id].sig /\ ~tmr'[id].sig
          /\ \A j \in Timers \ {id} : lptim'[j] = lptim[j] /\ tmr'[j] = tmr[j]
          /\ gpio' = gpio /\ isr' = isr /\ cb' = cb
          /\ lptim'[id].blocked = lptim[id].blocked
          /\ lptim'[id].callback = lptim[id].callback
          /\ IF lptim[id].blocked
             THEN lptim'[id].pending /\ obs'.call = NULL
             ELSE /\ lptim'[id].pending = lptim[id].pending
                  /\ obs'.call = lptim[id].callback]_vars

\* C27 witness: the notification of timer 1 has invoked the handler of slot
\* 1 while slot 0, masked, with another handler and a running countdown,
\* was left alone.
C27_Witness ==
    /\ obs.ret = "notify" /\ obs.fac = "timer" /\ obs.slot = 1
    /\ obs.call # NULL
    /\ lptim[0].blocked /\ ~lptim[0].pending
    /\ lptim[0].callback \notin {NULL, obs.call}
    /\ tmr[0].armed

\* C21: hal_gpio_init_in stores the edge mode on the pin's slot; it
\* registers the driver callback and stores the handler when the mode is not
\* off and an irq with a callback is given, and in every other case
\* registers nothing and stores no handler.
C21_InitInRegistersIffModeAndHandler ==
    [][(obs'.ret = "init_in") =>
          LET p == obs'.slot
              mode == obs'.found
              irq == obs'.arg
          IN  /\ gpio'[p].irq_mode = mode
              /\ gpio'[p].blocked = gpio[p].blocked
              /\ gpio'[p].pending = gpio[p].pending
              /\ \A i \in Pins \ {p} : gpio'[i] = gpio[i] /\ isr'[i] = isr[i]
              /\ IF mode # "OFF" /\ irq # NULL /\ irq_callback(irq) # NULL
                 THEN isr'[p] /\ gpio'[p].irq = irq
                 ELSE isr'[p] = isr[p] /\ gpio'[p].irq = gpio[p].irq]_vars

\* C21 witness: hal_gpio_init_in was called with an edge mode and an irq
\* that has no callback on a pin that had none: the mode is stored and
\* nothing is registered.
C21_Witness ==
    /\ obs.ret = "init_in"
    /\ obs.found = "RISING" /\ obs.arg = IrqNoCallback
    /\ gpio[obs.slot].irq_mode = "RISING"
    /\ gpio[obs.slot].irq = NULL
    /\ ~isr[obs.slot]

\* C22 (as claimed): when hal_gpio_init_out returns, the pin's slot holds no
\* handler and the driver holds no edge callback for the pin, whatever was
\* configured on the pin before.
C22_OutputPinHoldsNoHandler ==
    (obs.ret = "init_out") =>
        /\ gpio[obs.slot].irq = NULL
        /\ ~isr[obs.slot]

\* C24 (as claimed): when hal_gpio_irq_disable returns every pin slot is
\* masked; when hal_gpio_irq_enable returns every pin slot is unmasked and
\* every slot whose handler the call invoked has pending = false.
C24_DisableMasksAllEnableReplaysAll ==
    /\ (obs.ret = "mask" /\ obs.fac = "pin" /\ m.op = "idle") =>
           \A i \in Pins : gpio[i].blocked
    /\ (obs.ret = "unmask" /\ obs.fac = "pin" /\ m.op = "idle") =>
           \A i \in Pins :
               /\ ~gpio[i].blocked
               /\ (i \in obs.done => ~gpio[i].pending)

\* C25 (as claimed): from initialisation up to the first mask or unmask
\* call every timer and pin slot is masked, and a notification that arrives
\* finds its slot masked, sets pending and invokes no handler.
C25_SlotsStartMasked ==
    /\ \A id \in Timers : lptim[id].blocked
    /\ \A i \in Pins : gpio[i].blocked
    /\ (obs.ret = "notify") =>
           /\ obs.found = "masked"
           /\ obs.call = NULL
           /\ IF obs.fac = "timer"
              THEN lptim[obs.slot].pending
              ELSE gpio[obs.slot].pending

-----------------------------------------------------------------------------
(* Failing HAL calls and the teardown of the slots                         *)

\* C23: a hal_gpio_irq_detach whose unregistration succeeds leaves the pin
\* without driver callback and without handler, and the worker runs on; one
\* whose unregistration fails changes neither, and the worker is on the
\* panic path for gpioSetISRFunc: the slot keeps its handler through the
\* teardown, and the worker's exit code is 3.
C23_DetachUnregistersThenClears ==
    /\ [][/\ (obs'.ret = "detach") =>
                /\ ~isr'[obs'.slot]
                /\ gpio'[obs'.slot].irq = NULL
                /\ worker' = worker
          /\ (obs'.ret = "detach_failed") =>
                /\ gpio' = gpio
                /\ isr' = isr
                /\ worker'.pc = "reset"
                /\ worker'.failed = "gpioSetISRFunc"]_vars
    /\ [](worker.failed = "gpioSetISRFunc" =>
            /\ worker.pc \in {"reset", "zombie"}
            /\ m.op = "panic"
            /\ gpio[m.i].irq = m.s0.h
            /\ (worker.pc = "zombie" =>
                  WIFEXITED(worker.status) /\ WEXITSTATUS(worker.status) = 3))

\* C23 witness: a detach of a pin that held h1 failed, the worker went
\* through the teardown and exited with 3, and the slot still holds h1.
C23_Witness ==
    /\ worker.pc = "zombie"
    /\ worker.failed = "gpioSetISRFunc"
    /\ WEXITSTATUS(worker.status) = 3
    /\ m.op = "panic"
    /\ gpio[m.i].irq = "h1"

\* The position in hal_mcu_reset after the release call named.
StepAfter(name) ==
    1 + CHOOSE k \in 1..Len(TeardownSteps) : TeardownSteps[k] = name

\* C26 (as claimed, for the pending flag: its default is false in the
\* specification and in the zero-initialised arrays alike): once
\* hal_mcu_reset is past hal_lp_timer_deinit of a timer slot, or past
\* hal_gpio_irq_deinit, the slots torn down have pending = false, whatever
\* it was before.
C26_TeardownResetsFlags ==
    (worker.pc = "reset") =>
        /\ (worker.step >= StepAfter("hal_lp_timer_deinit(1):sigaction")) =>
              lptim[0].pending = LptimZero.pending
        /\ (worker.step >= StepAfter("hal_lp_timer_deinit(2):sigaction")) =>
              lptim[1].pending = LptimZero.pending
        /\ (worker.step >= StepAfter("hal_gpio_irq_deinit:gpioSetISRFunc")) =>
              \A i \in Pins : gpio[i].pending = GpioZero.pending

-----------------------------------------------------------------------------
(* Failed fork, replay after a restart of a countdown, dispatch counts     *)

\* C33 (as claimed): when fork has returned -1, the loop condition that
\* follows ends the supervisor; it does not go back to fork.
C33_FailedForkEndsSupervisor ==
    [][(sup_pc = "cond" /\ cpid = -1 /\ sup_pc' # sup_pc) =>
           sup_pc' = "done"]_vars

-----------------------------------------------------------------------------
(* Context storage                                                          *)

\* C31: a restore that follows a store of the same type, offset and size,
\* with no store attempted in between, fills the buffer with the bytes
\* stored, whether or not the worker was restarted in between.
C31_RestoreReturnsStored ==
    (/\ nvm.op = "restore"
     /\ nvm.last.type \in CtxTypes
     /\ nvm.req.type = nvm.last.type
     /\ nvm.req.offset = nvm.last.offset
     /\ nvm.req.size = nvm.last.size) =>
        nvm.out = nvm.last.buf

\* C31 witness: the second store, LORAWAN_STACK at offset 30, was read back
\* by a restarted worker.
C31_Witness ==
    /\ nvm.op = "restore"
    /\ nvm.stores = 2
    /\ nvm.restarted
    /\ nvm.last.type = "LORAWAN_STACK" /\ nvm.last.offset = 30
    /\ nvm.req.type = "LORAWAN_STACK" /\ nvm.req.offset = 30
    /\ nvm.req.size = nvm.last.size
    /\ nvm.out = nvm.last.buf
    /\ nvm.out # <<>>

\* What smtc_modem_hal_context_restore returns from a file.
Restored(file, rec) ==
    hal_nvm_read_buffer(file, context_restore_addr(rec.type, rec.offset),
                        rec.size, Untouched(rec.size), "none")

\* C38 (as claimed): a store of one type leaves what a restore returns for
\* every other type that was stored before as it was.
C38_StoreKeepsOtherTypes ==
    [][(nvm'.op = "store" /\ nvm'.stores = nvm.stores + 1) =>
          \A t \in CtxTypes \ {nvm'.last.type} :
              (nvm.ctx[t] # NoStore) =>
                  Restored(nvm'.file, nvm.ctx[t]) = Restored(nvm.file, nvm.ctx[t])]_vars

-----------------------------------------------------------------------------
(* IRQ management of the engine: smtc_modem_hal.c                          *)
(*                                                                         *)
(* smtc_modem_hal_disable_modem_irq is hal_gpio_irq_disable() followed by  *)
(* hal_lp_timer_irq_disable of each timer; smtc_modem_hal_enable_modem_irq *)
(* is hal_gpio_irq_enable() followed by hal_lp_timer_irq_enable of each    *)
(* timer.  The main thread walks the slots in that order: pin i is slot    *)
(* i, timer id is slot P_NUM + id.                                         *)

ModemSlots == 0..(P_NUM + HAL_LP_TIMER_NB - 1)

\* The masked/pending pair and the handler of slot k.
ModemView(k) ==
    IF k < P_NUM THEN GpioView(gpio[k]) ELSE TimerView(lptim[k - P_NUM])

\* smtc_modem_hal_disable_modem_irq: the next slot is masked; after the last
\* one the call returns.
ModemIrqDisable ==
    /\ fac = "modem" /\ m.op \in {"idle", "modem_dis"}
    /\ wk.pc = "idle"
    /\ IF m.i < P_NUM
       THEN /\ gpio' = [gpio EXCEPT ![m.i] = hal_gpio_irq_disable_iter(@)]
            /\ UNCHANGED lptim
       ELSE /\ lptim' = [lptim EXCEPT ![m.i - P_NUM] = hal_lp_timer_irq_disable(@)]
            /\ UNCHANGED gpio
    /\ IF m.i + 1 \in ModemSlots
       THEN /\ m' = [MainIdle EXCEPT !.op = "modem_dis", !.i = m.i + 1]
            /\ obs' = NoObs
            /\ UNCHANGED hist
       ELSE /\ m' = MainIdle
            /\ obs' = [NoObs EXCEPT !.ret = "modem_mask"]
            /\ hist' = [hist EXCEPT !.modem.dis =
                            IF @ < MaxDisables THEN @ + 1 ELSE @]
    /\ UNCHANGED <<fac, tmr, isr, cb, coal, mret>>
    /\ UNCHANGED <<supVars, wk, app, nvm>>

\* smtc_modem_hal_enable_modem_irq, slot m.i: blocked = false
ModemIrqEnableUnblock ==
    /\ fac = "modem" /\ m.op \in {"idle", "modem_en"}
    /\ wk.pc = "idle"
    /\ IF m.i < P_NUM
       THEN /\ gpio' = [gpio EXCEPT ![m.i] = hal_gpio_irq_enable_unblock(@)]
            /\ UNCHANGED lptim
       ELSE /\ lptim' = [lptim EXCEPT ![m.i - P_NUM] =
                            hal_lp_timer_irq_enable_unblock(@)]
            /\ UNCHANGED gpio
    /\ m' = [MainIdle EXCEPT
                !.op = "modem_en_test", !.i = m.i, !.done = m.done,
                !.snap = IF m.op = "idle"
                         THEN {k \in ModemSlots : ModemView(k).pending
                                                  /\ ModemView(k).h # NULL}
                         ELSE m.snap]
    /\ obs' = NoObs
    /\ UNCHANGED <<fac, hist, tmr, isr, cb, coal, mret>>
    /\ UNCHANGED <<supVars, wk, app, nvm>>

\* The main thread after the unmask of slot m.i: the next slot, or idle.
AfterModemUnmask ==
    IF m.i + 1 \in ModemSlots
    THEN [MainIdle EXCEPT !.op = "modem_en", !.i = m.i + 1,
                          !.done = m.done, !.snap = m.snap]
    ELSE MainIdle

\* What the step that ends the unmask of slot m.i reports, with the slots
\* replayed so far: the return of smtc_modem_hal_enable_modem_irq after the
\* last slot.
AfterModemObs(done) ==
    IF m.i + 1 \in ModemSlots
    THEN NoObs
    ELSE [NoObs EXCEPT !.ret = "modem_unmask", !.n = hist.modem.dis,
                       !.done = done, !.snap = m.snap]

\* The disable calls counted start again when the enable call returns.
AfterModemHist ==
    IF m.i + 1 \in ModemSlots THEN hist ELSE [hist EXCEPT !.modem.dis = 0]

\* smtc_modem_hal_enable_modem_irq, slot m.i: the test, and the callback
\* when it holds.
ModemIrqEnableTest ==
    /\ m.op = "modem_en_test"
    /\ IF IF m.i < P_NUM
          THEN hal_gpio_irq_enable_replays(gpio[m.i])
          ELSE hal_lp_timer_irq_enable_replays(lptim[m.i - P_NUM])
       THEN /\ m' = [m EXCEPT !.op = "modem_en_clr", !.done = @ \cup {m.i}]
            /\ obs' = [NoObs EXCEPT !.fac = "modem", !.slot = m.i,
                                    !.call = ModemView(m.i).h]
            /\ UNCHANGED hist
       ELSE /\ m' = AfterModemUnmask
            /\ obs' = AfterModemObs(m.done)
            /\ hist' = AfterModemHist
    /\ UNCHANGED <<fac, lptim, tmr, gpio, isr, cb, coal, mret>>
    /\ UNCHANGED <<supVars, wk, app, nvm>>

\* smtc_modem_hal_enable_modem_irq, slot m.i: pending = false after the
\* callback.
ModemIrqEnableClear ==
    /\ m.op = "modem_en_clr"
    /\ IF m.i < P_NUM
       THEN /\ gpio' = [gpio EXCEPT ![m.i] = hal_gpio_irq_enable_clear(@)]
            /\ UNCHANGED lptim
       ELSE /\ lptim' = [lptim EXCEPT ![m.i - P_NUM] =
                            hal_lp_timer_irq_enable_clear(@)]
            /\ UNCHANGED gpio
    /\ m' = AfterModemUnmask
    /\ obs' = AfterModemObs(m.done)
    /\ hist' = AfterModemHist
    /\ UNCHANGED <<fac, tmr, isr, cb, coal, mret>>
    /\ UNCHANGED <<supVars, wk, app, nvm>>

ModemInit ==
    SupState0 /\ GateIdle("modem") /\ wk = WakeZero /\ app = AppZero /\ nvm = NvmZero

\* The engine masks and unmasks while the application has configured the
\* pins and started the timers, and the notifications arrive.
ModemNext ==
    \/ \E p \in Pins : GpioInitIn(p, "RISING", "h1")
    \/ \E id \in Timers : TimerStartAssign(id, 50, "h1")
    \/ TimerStartArm
    \/ ModemIrqDisable
    \/ ModemIrqEnableUnblock
    \/ ModemIrqEnableTest
    \/ ModemIrqEnableClear
    \/ TimerTick
    \/ \E id \in Timers : TimerExpire(id)
    \/ \E id \in Timers : TimerSignal(id)
    \/ \E p \in Pins : GpioEdge(p)
    \/ \E p \in Pins : GpioCallbackPend(p)
    \/ \E p \in Pins : GpioCallbackCall(p)

ModemSpec == ModemInit /\ [][ModemNext]_vars

\* The main loop parks between the engine's masking calls while edges
\* arrive on a configured pin; only the wake-up countdown ends a park.
MaskedWakeNext ==
    \/ GpioInitIn(0, "RISING", "h1")
    \/ \E p \in Pins : GpioEdge(p)
    \/ \E p \in Pins : GpioCallbackPend(p)
    \/ \E p \in Pins : GpioCallbackCall(p)
    \/ ModemIrqDisable
    \/ ModemIrqEnableUnblock
    \/ ModemIrqEnableTest
    \/ ModemIrqEnableClear
    \/ \E t \in SleepTimes : RunEngine(t)
    \/ IrqFlagPending
    \/ SleepCall
    \/ SleepArm
    \/ SleepPark
    \/ SleepPoll
    \/ SleepStop
    \/ RtcTick
    \/ RtcExpire
    \/ RtcSignal

MaskedWakeSpec == ModemInit /\ [][MaskedWakeNext]_vars

-----------------------------------------------------------------------------
(* Replay, dispatch counts and nesting of the masks                        *)

\* C32 (as claimed): when hal_lp_timer_irq_enable invokes the callback of a
\* slot, a notification has been delivered to the slot since the
\* hal_lp_timer_start that attached that callback.  The run records the
\* notifications of the slot hist.watch.
C32_ReplayOnlyOwnNotification ==
    (m.op = "tim_en_clr" /\ m.i = hist.watch) => hist.timer[m.i].got

\* C34: on every timer and pin slot, in every interleaving, the handler has
\* been invoked at most as often as notifications have been delivered to
\* the slot (a run counts them on the timer slot hist.watch, or on every
\* pin slot).
C34_DispatchesNeverExceedNotifications ==
    /\ \A id \in Timers : hist.timer[id].credit >= 0
    /\ \A i \in Pins : hist.pin[i].credit >= 0

\* C34 witness: two expiries were recorded on the masked timer slot 0 and
\* the unmask has invoked its callback once; one notification was coalesced.
C34_Witness ==
    /\ m.op = "tim_en_clr" /\ m.i = 0
    /\ obs.call = "h1"
    /\ hist.timer[0].credit = 1

\* C35: when smtc_modem_hal_enable_modem_irq returns, however many
\* smtc_modem_hal_disable_modem_irq calls came before it, every pin and
\* timer slot is unmasked and the handler of every slot that held a pending
\* notification when the call began has been invoked by the call.
C35_MaskingDoesNotNest ==
    (obs.ret = "modem_unmask") =>
        /\ \A k \in ModemSlots : ~ModemView(k).blocked
        /\ obs.snap \subseteq obs.done

\* C35 witness: one enable call returns after two disable calls; it has
\* replayed a pin slot and a timer slot.
C35_Witness ==
    /\ obs.ret = "modem_unmask" /\ obs.n = 2
    /\ 0 \in obs.snap /\ P_NUM \in obs.snap
    /\ {0, P_NUM} \subseteq obs.done
    /\ \A k \in ModemSlots : ~ModemView(k).blocked

\* C39 (as claimed): every step of hal_gpio_clear_pending_irq( pin ) leaves
\* the pending flag of every other pin slot, and the masked flag and the
\* handler of every pin slot, as they were, and when the call returns the
\* pending flag of the slot of pin is clear.
C39_ClearPendingTouchesOnePin ==
    [][(m.op \in {"idle", "gpio_clr"}
          /\ (m'.op = "gpio_clr" \/ obs'.ret = "clear_pending")) =>
         LET pin == IF m'.op = "gpio_clr" THEN m'.pin ELSE obs'.slot IN
           /\ \A i \in Pins \ {pin} : gpio'[i] = gpio[i]
           /\ gpio'[pin].blocked = gpio[pin].blocked
           /\ gpio'[pin].irq = gpio[pin].irq
           /\ (obs'.ret = "clear_pending") => ~gpio'[pin].pending]_vars

\* C37: a call of hal_mcu_set_sleep_for_ms with milliseconds > 0 has armed
\* the wake-up countdown before sleep_handler runs (the countdown is armed,
\* or has expired since), and has disarmed it when it returns: outside the
\* call the countdown is never armed.  A call with milliseconds <= 0
\* returns at once and leaves the sleeping flag and the countdown as they
\* were.
C37_SleepArmsParksDisarms ==
    /\ [](/\ (wk.pc = "idle") => ~wk.rtc.armed
          /\ (wk.pc \in {"park", "poll", "stop"}) =>
                 (wk.ms > 0 /\ (wk.rtc.armed \/ wk.rtc.sig \/ wk.hit)))
    /\ [][/\ (wk.pc = "flag" /\ wk'.pc = "set") => wk'.ms > 0
          /\ (wk.pc = "flag" /\ wk'.pc = "idle" /\ ~wk'.flag) =>
                 /\ wk'.ms <= 0
                 /\ wk'.sleeping = wk.sleeping
                 /\ wk'.rtc = wk.rtc
          /\ (wk.pc = "stop" /\ wk'.pc = "idle") =>
                 ~wk'.rtc.armed]_vars

\* C37 witness: a call for 1500 ms was woken and has returned; the
\* countdown is disarmed and no signal of it is queued.
C37_Witness ==
    /\ wk.pc = "idle" /\ wk.ms = 1500 /\ wk.parks = 1
    /\ wk.hit /\ ~wk.rtc.sig
    /\ ~wk.rtc.armed /\ ~wk.sleeping

\* C36: the delivery of the wake-up countdown's signal leaves the sleeping
\* flag false, whatever the masked flags of the pin and timer slots are, and
\* changes no pin or timer slot: no pending flag is set by it.
C36_RtcWakeupIsNotMasked ==
    [][(wk.rtc.sig /\ ~wk'.rtc.sig) =>
          /\ ~wk'.sleeping
          /\ lptim' = lptim
          /\ gpio' = gpio]_vars

\* C36 witness: every pin and timer slot is masked, the wake-up countdown
\* of the call has expired and sleep_handler has returned; no slot holds a
\* pending flag.
C36_Witness ==
    /\ \A k \in ModemSlots : ModemView(k).blocked /\ ~ModemView(k).pending
    /\ wk.pc = "stop" /\ wk.woken /\ wk.hit
    /\ ~wk.sleeping /\ ~wk.rtc.armed /\ ~wk.rtc.sig

=============================================================================
